---- MODULE Spec2Model ----
(***************************************************************************)
(* Guided dialogue branching engine (src/src/graph.py) with its answer     *)
(* classifier (src/src/response_classifier.py) and the text utilities the  *)
(* bridge uses (src/src/text_utils.py).                                    *)
(*                                                                         *)
(* A text is a sequence of one-character strings, so that the substring,   *)
(* length, strip and lower-case computations of the code are computed and  *)
(* not assumed.                                                            *)
(***************************************************************************)
EXTENDS Integers, Sequences, FiniteSets, TLC

(***************************************************************************)
(* Python str primitives                                                   *)
(***************************************************************************)
Whitespace == {" ", "\n", "\t"}

UpperToLower ==
    [c \in {"A","B","C","D","E","F","G","H","I","J","K","L","M","N","O","P","Q",
            "R","S","T","U","V","W","X","Y","Z","À","È","É","Ì","Ò","Ù"} |->
        CASE c = "A" -> "a" [] c = "B" -> "b" [] c = "C" -> "c" [] c = "D" -> "d"
          [] c = "E" -> "e" [] c = "F" -> "f" [] c = "G" -> "g" [] c = "H" -> "h"
          [] c = "I" -> "i" [] c = "J" -> "j" [] c = "K" -> "k" [] c = "L" -> "l"
          [] c = "M" -> "m" [] c = "N" -> "n" [] c = "O" -> "o" [] c = "P" -> "p"
          [] c = "Q" -> "q" [] c = "R" -> "r" [] c = "S" -> "s" [] c = "T" -> "t"
          [] c = "U" -> "u" [] c = "V" -> "v" [] c = "W" -> "w" [] c = "X" -> "x"
          [] c = "Y" -> "y" [] c = "Z" -> "z" [] c = "À" -> "à" [] c = "È" -> "è"
          [] c = "É" -> "é" [] c = "Ì" -> "ì" [] c = "Ò" -> "ò" [] c = "Ù" -> "ù"]

\* str.lower()
lower(text) ==
    [i \in 1..Len(text) |->
        IF text[i] \in DOMAIN UpperToLower THEN UpperToLower[text[i]] ELSE text[i]]

\* str.strip(): drops leading and trailing whitespace
strip(text) ==
    LET keep == {i \in 1..Len(text) : text[i] \notin Whitespace}
    IN  IF keep = {} THEN <<>>
        ELSE SubSeq(text,
                    CHOOSE i \in keep : \A j \in keep : i <= j,
                    CHOOSE i \in keep : \A j \in keep : j <= i)

\* text[i:].startswith(word)
StartsAt(text, word, i) ==
    /\ i >= 1
    /\ i + Len(word) - 1 <= Len(text)
    /\ \A k \in 1..Len(word) : text[i + k - 1] = word[k]

\* "word in text" for strings: word occurs as a substring
contains(text, word) ==
    \E i \in 1..(Len(text) - Len(word) + 1) : StartsAt(text, word, i)

\* len(text.split()): the number of whitespace-separated words
word_count(text) ==
    Cardinality({i \in 1..Len(text) :
                    /\ text[i] \notin Whitespace
                    /\ (i = 1 \/ text[i - 1] \in Whitespace)})

\* "x in list"
InList(x, list) == \E i \in 1..Len(list) : list[i] = x

(***************************************************************************)
(* response_classifier.py                                                  *)
(***************************************************************************)
EVASIVE_KEYWORDS ==
    << <<"n","o">>,
       <<"n","i","e","n","t","e">>,
       <<"n","o","n"," ","r","i","c","o","r","d","o">>,
       <<"n","o","n"," ","s","o">>,
       <<"n","u","l","l","a">>,
       <<"n","o","n"," ","m","i"," ","v","i","e","n","e"," ","i","n"," ","m","e","n","t","e">>,
       <<"b","o","h">>,
       <<"m","a","h">> >>

PAURA_KEYWORDS ==
    << <<"p","a","n","i","c","o">>,
       <<"a","n","s","i","a">>,
       <<"a","n","s","i","o","s">>,
       <<"p","a","u","r","a">>,
       <<"s","p","a","v","e","n","t">>,
       <<"a","f","f","a","n","n","o">>,
       <<"a","f","f","a","n","n">>,
       <<"r","e","s","p","i","r","o">>,
       <<"r","e","s","p","i","r">>,
       <<"b","a","t","t","i","c","u","o","r","e">>,
       <<"b","a","t","t","i","t","o">>,
       <<"t","r","e","m","o","r","e">>,
       <<"t","r","e","m","o","r">>,
       <<"a","g","i","t","a","t","o">>,
       <<"a","g","i","t","a","z">>,
       <<"n","e","r","v","o","s","o">>,
       <<"n","e","r","v">>,
       <<"p","r","e","o","c","c","u","p">>,
       <<"t","i","m","o","r","e">>,
       <<"t","i","m","o","r">> >>

RABBIA_KEYWORDS ==
    << <<"r","a","b","b","i","a">>,
       <<"a","r","r","a","b","b","i","a","t","o">>,
       <<"a","r","r","a","b","b","i","a","t">>,
       <<"f","u","r","i","o","s","o">>,
       <<"f","u","r","i","o","s">>,
       <<"f","r","u","s","t","r","a","t","o">>,
       <<"f","r","u","s","t","r","a","t">>,
       <<"i","r","r","i","t","a","t","o">>,
       <<"i","r","r","i","t","a","t">>,
       <<"n","e","r","v","o","s","o">>,
       <<"n","e","r","v">>,
       <<"e","s","a","s","p","e","r","a","t","o">>,
       <<"e","s","a","s","p","e","r","a","t">>,
       <<"s","t","u","f","o">>,
       <<"s","t","u","f">>,
       <<"n","o","n"," ","n","e"," ","p","o","s","s","o"," ","p","i","ù">> >>

TRISTEZZA_KEYWORDS ==
    << <<"t","r","i","s","t","e">>,
       <<"t","r","i","s","t","e","z","z","a">>,
       <<"t","r","i","s","t","e","z","z">>,
       <<"v","u","o","t","o">>,
       <<"v","u","o","t","a">>,
       <<"s","c","o","n","f","o","r","t","o">>,
       <<"s","c","o","n","f","o","r","t">>,
       <<"s","c","o","r","a","g","g","i","a","t","o">>,
       <<"s","c","o","r","a","g","g","i","a","t">>,
       <<"d","e","m","o","r","a","l","i","z","z","a","t","o">>,
       <<"d","e","m","o","r","a","l","i","z","z","a","t">>,
       <<"n","o","n"," ","c","e"," ","l","a"," ","f","a","c","c","i","o">>,
       <<"n","o","n"," ","c","e"," ","l","a">>,
       <<"d","e","p","r","e","s","s","o">>,
       <<"d","e","p","r","e","s","s">>,
       <<"p","i","a","n","g","o">>,
       <<"p","i","a","n","g","e","r","e">>,
       <<"l","a","c","r","i","m","e">>,
       <<"l","a","c","r","i","m">>,
       <<"s","o","l","o">>,
       <<"s","o","l","a">>,
       <<"s","o","l","i","t","u","d","i","n","e">>,
       <<"s","o","l","i","t","u","d","i","n">>,
       <<"n","e","s","s","u","n","o">>,
       <<"a","b","b","a","n","d","o","n","a">>,
       <<"l","a","s","c","i","a","t","o">>,
       <<"i","s","o","l","a","t","o">> >>

FELICITA_KEYWORDS ==
    << <<"f","e","l","i","c","e">>,
       <<"f","e","l","i","c","i","t","à">>,
       <<"c","o","n","t","e","n","t","o">>,
       <<"c","o","n","t","e","n","t">>,
       <<"g","i","o","i","a">>,
       <<"g","i","o","i","o","s">>,
       <<"a","l","l","e","g","r","o">>,
       <<"a","l","l","e","g","r">>,
       <<"b","e","n","e">>,
       <<"b","e","n","i">>,
       <<"b","e","n","i","s","s","i","m","o">>,
       <<"o","t","t","i","m","o">>,
       <<"o","t","t","i","m">>,
       <<"s","e","r","e","n","o">>,
       <<"s","e","r","e","n">>,
       <<"t","r","a","n","q","u","i","l","l","o">>,
       <<"t","r","a","n","q","u","i","l","l">> >>

normalize(text) == strip(lower(text))

contains_any_keyword(text, keywords) ==
    LET normalized == normalize(text)
    IN  \E k \in 1..Len(keywords) : contains(normalized, keywords[k])

EvasiveMaxLen == 15

\* is_evasive_answer without the length limit on the keyword rule
is_evasive_answer_any_length(answer) ==
    LET normalized == normalize(answer)
    IN  normalized = <<>> \/ contains_any_keyword(normalized, EVASIVE_KEYWORDS)

is_evasive_answer(answer) ==
    LET normalized == normalize(answer)
    IN  IF normalized = <<>> THEN TRUE
        ELSE IF Len(normalized) <= EvasiveMaxLen
                /\ contains_any_keyword(normalized, EVASIVE_KEYWORDS) THEN TRUE
        ELSE IF InList(normalized, EVASIVE_KEYWORDS) THEN TRUE
        ELSE FALSE

ThemeMinLen == 3

\* None is the Python None wherever the code can hold it
None == "None"

\* detect_emotional_theme checking sadness before the other themes
detect_emotional_theme_sadness_first(answer) ==
    LET normalized == normalize(answer)
    IN  IF Len(normalized) < ThemeMinLen THEN None
        ELSE IF contains_any_keyword(normalized, TRISTEZZA_KEYWORDS) THEN "Tristezza"
        ELSE IF contains_any_keyword(normalized, PAURA_KEYWORDS) THEN "Paura"
        ELSE IF contains_any_keyword(normalized, RABBIA_KEYWORDS) THEN "Rabbia"
        ELSE IF contains_any_keyword(normalized, FELICITA_KEYWORDS) THEN "Felicità"
        ELSE None

\* whether text and some keyword match one inside the other, either way round
overlaps_any_keyword(text, keywords) ==
    \E k \in 1..Len(keywords) : contains(text, keywords[k]) \/ contains(keywords[k], text)

\* detect_emotional_theme without the minimum length, matching an answer that
\* is part of a keyword as well as a keyword that is part of the answer
detect_emotional_theme_partial_match(answer) ==
    LET normalized == normalize(answer)
    IN  IF overlaps_any_keyword(normalized, PAURA_KEYWORDS) THEN "Paura"
        ELSE IF overlaps_any_keyword(normalized, RABBIA_KEYWORDS) THEN "Rabbia"
        ELSE IF overlaps_any_keyword(normalized, TRISTEZZA_KEYWORDS) THEN "Tristezza"
        ELSE IF overlaps_any_keyword(normalized, FELICITA_KEYWORDS) THEN "Felicità"
        ELSE None

detect_emotional_theme(answer) ==
    LET normalized == normalize(answer)
    IN  IF Len(normalized) < ThemeMinLen THEN None
        ELSE IF contains_any_keyword(normalized, PAURA_KEYWORDS) THEN "Paura"
        ELSE IF contains_any_keyword(normalized, RABBIA_KEYWORDS) THEN "Rabbia"
        ELSE IF contains_any_keyword(normalized, TRISTEZZA_KEYWORDS) THEN "Tristezza"
        ELSE IF contains_any_keyword(normalized, FELICITA_KEYWORDS) THEN "Felicità"
        ELSE None

get_theme_display_name(theme) ==
    CASE theme = "evasive"   -> "Risposta evasiva"
      [] theme = "Paura"     -> "Paura/Ansia"
      [] theme = "Rabbia"    -> "Rabbia/Frustrazione"
      [] theme = "Tristezza" -> "Tristezza/Solitudine"
      [] theme = "Felicità"  -> "Felicità/Gioia"
      [] OTHER               -> theme

(***************************************************************************)
(* text_utils.py                                                           *)
(***************************************************************************)
Digits == {"0","1","2","3","4","5","6","7","8","9"}

\* the characters the regex class \w matches
WordChars ==
    DOMAIN UpperToLower \cup {UpperToLower[c] : c \in DOMAIN UpperToLower}
        \cup Digits \cup {"_"}

\* str.upper()
upper(text) ==
    [i \in 1..Len(text) |->
        IF \E u \in DOMAIN UpperToLower : UpperToLower[u] = text[i]
        THEN CHOOSE u \in DOMAIN UpperToLower : UpperToLower[u] = text[i]
        ELSE text[i]]

\* the regex assertion \b holds before position i of text
BoundaryAt(text, i) ==
    LET before == i > 1 /\ i - 1 <= Len(text) /\ text[i - 1] \in WordChars
        after  == i >= 1 /\ i <= Len(text) /\ text[i] \in WordChars
    IN  before # after

\* \bword\b matches text at position i
WordAt(text, word, i) ==
    /\ StartsAt(text, word, i)
    /\ BoundaryAt(text, i)
    /\ BoundaryAt(text, i + Len(word))

\* the length of the run of whitespace that starts at position i
RECURSIVE SpaceRun(_, _)
SpaceRun(text, i) ==
    IF i <= Len(text) /\ text[i] \in Whitespace THEN 1 + SpaceRun(text, i + 1) ELSE 0

\* str.replace(old, new): every occurrence, left to right, not overlapping
RECURSIVE replace(_, _, _)
replace(text, old, new) ==
    IF text = <<>> THEN <<>>
    ELSE IF StartsAt(text, old, 1)
         THEN new \o replace(SubSeq(text, Len(old) + 1, Len(text)), old, new)
         ELSE <<text[1]>> \o replace(SubSeq(text, 2, Len(text)), old, new)

\* re.sub(r"\s+", " ", text)
RECURSIVE CollapseFrom(_, _)
CollapseFrom(text, i) ==
    IF i > Len(text) THEN <<>>
    ELSE IF text[i] \in Whitespace
         THEN <<" ">> \o CollapseFrom(text, i + SpaceRun(text, i))
         ELSE <<text[i]>> \o CollapseFrom(text, i + 1)

\* re.sub(r"\s+", " ", text).strip()
collapse_spaces(text) == strip(CollapseFrom(text, 1))

\* str.split(sep) for a one-character separator, as a sequence of texts
RECURSIVE SplitOn(_, _)
SplitOn(text, sep) ==
    IF \A i \in 1..Len(text) : text[i] # sep THEN <<text>>
    ELSE LET p == CHOOSE i \in 1..Len(text) :
                      text[i] = sep /\ \A j \in 1..(i - 1) : text[j] # sep
         IN  <<SubSeq(text, 1, p - 1)>> \o SplitOn(SubSeq(text, p + 1, Len(text)), sep)

\* sep.join(parts)
RECURSIVE join(_, _)
join(parts, sep) ==
    IF parts = <<>> THEN <<>>
    ELSE IF Len(parts) = 1 THEN parts[1]
    ELSE parts[1] \o sep \o join(Tail(parts), sep)

MALE_LABELS ==
    { <<"M">>,
      <<"M","A","L","E">>,
      <<"U","O","M","O">>,
      <<"M","A","S","C","H","I","O">>,
      <<"M","A","S","C","H","I","L","E">> }

FEMALE_LABELS ==
    { <<"F">>,
      <<"F","E","M","A","L","E">>,
      <<"D","O","N","N","A">>,
      <<"F","E","M","M","I","N","A">>,
      <<"F","E","M","M","I","N","I","L","E">> }

gender_label(gender) ==
    LET g == upper(strip(gender))
    IN  IF g \in MALE_LABELS THEN "MASCHILE"
        ELSE IF g \in FEMALE_LABELS THEN "FEMMINILE"
        ELSE "NON_SPECIFICATO"

\* the (old, new) pairs of coerce_gender, in the order of the dict
REPL_MASCHILE ==
    << <<<<"p","r","e","o","c","c","u","p","a","t","a">>, <<"p","r","e","o","c","c","u","p","a","t","o">>>>,
       <<<<"s","t","r","e","s","s","a","t","a">>, <<"s","t","r","e","s","s","a","t","o">>>>,
       <<<<"d","e","t","e","r","m","i","n","a","t","a">>, <<"d","e","t","e","r","m","i","n","a","t","o">>>>,
       <<<<"l","e","g","a","t","a">>, <<"l","e","g","a","t","o">>>>,
       <<<<"s","t","a","t","a">>, <<"s","t","a","t","o">>>>,
       <<<<"s","e","r","e","n","a">>, <<"s","e","r","e","n","o">>>>,
       <<<<"t","r","a","n","q","u","i","l","l","a">>, <<"t","r","a","n","q","u","i","l","l","o">>>>,
       <<<<"a","n","g","o","s","c","i","a","t","a">>, <<"a","n","g","o","s","c","i","a","t","o">>>>,
       <<<<"s","p","a","v","e","n","t","a","t","a">>, <<"s","p","a","v","e","n","t","a","t","o">>>>,
       <<<<"s","t","a","n","c","a">>, <<"s","t","a","n","c","o">>>> >>

REPL_FEMMINILE ==
    << <<<<"p","r","e","o","c","c","u","p","a","t","o">>, <<"p","r","e","o","c","c","u","p","a","t","a">>>>,
       <<<<"s","t","r","e","s","s","a","t","o">>, <<"s","t","r","e","s","s","a","t","a">>>>,
       <<<<"d","e","t","e","r","m","i","n","a","t","o">>, <<"d","e","t","e","r","m","i","n","a","t","a">>>>,
       <<<<"l","e","g","a","t","o">>, <<"l","e","g","a","t","a">>>>,
       <<<<"s","t","a","t","o">>, <<"s","t","a","t","a">>>>,
       <<<<"s","e","r","e","n","o">>, <<"s","e","r","e","n","a">>>>,
       <<<<"t","r","a","n","q","u","i","l","l","o">>, <<"t","r","a","n","q","u","i","l","l","a">>>>,
       <<<<"a","n","g","o","s","c","i","a","t","o">>, <<"a","n","g","o","s","c","i","a","t","a">>>>,
       <<<<"s","p","a","v","e","n","t","a","t","o">>, <<"s","p","a","v","e","n","t","a","t","a">>>>,
       <<<<"s","t","a","n","c","o">>, <<"s","t","a","n","c","a">>>> >>

\* re.sub(rf"\b{k}\b", v, text, flags=re.IGNORECASE)
RECURSIVE SubWordFrom(_, _, _, _)
SubWordFrom(text, k, v, i) ==
    IF i > Len(text) THEN <<>>
    ELSE IF WordAt(lower(text), k, i)
         THEN v \o SubWordFrom(text, k, v, i + Len(k))
         ELSE <<text[i]>> \o SubWordFrom(text, k, v, i + 1)

RECURSIVE CoerceWith(_, _)
CoerceWith(text, repl) ==
    IF repl = <<>> THEN text
    ELSE CoerceWith(SubWordFrom(text, repl[1][1], repl[1][2], 1), Tail(repl))

coerce_gender(text, label) ==
    IF label \notin {"MASCHILE", "FEMMINILE"} THEN text
    ELSE IF label = "MASCHILE" THEN CoerceWith(text, REPL_MASCHILE)
    ELSE CoerceWith(text, REPL_FEMMINILE)

\* the (old, new) pairs of format_question_for_gender, in the order of the dict
QUESTION_REPLACEMENTS ==
    << <<<<"s","i"," ","è"," ","s","e","n","t","i","t","o">>, <<"s","i"," ","è"," ","s","e","n","t","i","t","a">>>>,
       <<<<"s","i"," ","è"," ","s","e","n","t","i","t","a">>, <<"s","i"," ","è"," ","s","e","n","t","i","t","a">>>>,
       <<<<"è"," ","r","i","u","s","c","i","t","o">>, <<"è"," ","r","i","u","s","c","i","t","a">>>>,
       <<<<"è"," ","r","i","u","s","c","i","t","a">>, <<"è"," ","r","i","u","s","c","i","t","a">>>>,
       <<<<"p","a","r","t","i","c","o","l","a","r","m","e","n","t","e"," ","p","r","e","o","c","c","u","p","a","t","o">>, <<"p","a","r","t","i","c","o","l","a","r","m","e","n","t","e"," ","p","r","e","o","c","c","u","p","a","t","a">>>>,
       <<<<"p","e","n","s","a"," ","d","i"," ","e","s","s","e","r","s","i"," ","s","e","n","t","i","t","o">>, <<"p","e","n","s","a"," ","d","i"," ","e","s","s","e","r","s","i"," ","s","e","n","t","i","t","a">>>>,
       <<<<"s","i"," ","è"," ","s","e","n","t","i","t","o"," ","i","n"," ","d","i","f","f","i","c","o","l","t","à">>, <<"s","i"," ","è"," ","s","e","n","t","i","t","a"," ","i","n"," ","d","i","f","f","i","c","o","l","t","à">>>> >>

RECURSIVE ReplaceAll(_, _)
ReplaceAll(text, pairs) ==
    IF pairs = <<>> THEN text
    ELSE ReplaceAll(replace(text, pairs[1][1], pairs[1][2]), Tail(pairs))

format_question_for_gender(question_text, label) ==
    IF label = "FEMMINILE" THEN ReplaceAll(question_text, QUESTION_REPLACEMENTS)
    ELSE question_text

QUESTION_WORDS ==
    << <<"c","o","m","e">>,
       <<"c","o","s","a">>,
       <<"q","u","a","n","d","o">>,
       <<"d","o","v","e">>,
       <<"p","e","r","c","h","é">>,
       <<"p","e","r","c","h","è">>,
       <<"c","h","i">>,
       <<"q","u","a","l","e">>,
       <<"q","u","a","n","t","o">> >>

\* re.match(r'^\s*(come|cosa|...)\b', line): an interrogative word leads the line
LeadsWithQuestionWord(line) ==
    LET at == 1 + SpaceRun(line, 1)
    IN  \E w \in 1..Len(QUESTION_WORDS) :
            /\ StartsAt(line, QUESTION_WORDS[w], at)
            /\ BoundaryAt(line, at + Len(QUESTION_WORDS[w]))

\* the lines strip_questions keeps, stripped
RECURSIVE KeptLines(_)
KeptLines(lines) ==
    IF lines = <<>> THEN <<>>
    ELSE LET ln_stripped == strip(lines[1])
         IN  IF ln_stripped = <<>> THEN KeptLines(Tail(lines))
             ELSE IF LeadsWithQuestionWord(lower(ln_stripped)) THEN KeptLines(Tail(lines))
             ELSE IF ln_stripped[Len(ln_stripped)] = "?" THEN KeptLines(Tail(lines))
             ELSE <<ln_stripped>> \o KeptLines(Tail(lines))

strip_questions(text) == strip(join(KeptLines(SplitOn(text, "\n")), <<"\n">>))

LABELS ==
    << <<"r","i","f","l","e","s","s","o">>,
       <<"v","a","l","i","d","a","z","i","o","n","e">>,
       <<"v","a","l","i","d","o">>,
       <<"v","a","l","i","d","a">> >>

\* the length of the match of ^\s*(label)\s*:\s* at position i, 0 when none
LabelMatchLen(text, i) ==
    LET low  == lower(text)
        lead == SpaceRun(text, i)
        hits == {w \in 1..Len(LABELS) :
                    /\ StartsAt(low, LABELS[w], i + lead)
                    /\ LET c == i + lead + Len(LABELS[w]) + SpaceRun(text, i + lead + Len(LABELS[w]))
                       IN  c <= Len(text) /\ text[c] = ":"}
    IN  IF (i = 1 \/ text[i - 1] = "\n") /\ hits # {}
        THEN LET w == CHOOSE h \in hits : \A g \in hits : h <= g
                 c == i + lead + Len(LABELS[w]) + SpaceRun(text, i + lead + Len(LABELS[w]))
             IN  (c - i + 1) + SpaceRun(text, c + 1)
        ELSE 0

RECURSIVE DropLabelsFrom(_, _)
DropLabelsFrom(text, i) ==
    IF i > Len(text) THEN <<>>
    ELSE IF LabelMatchLen(text, i) > 0
         THEN DropLabelsFrom(text, i + LabelMatchLen(text, i))
         ELSE <<text[i]>> \o DropLabelsFrom(text, i + 1)

strip_labels(text) == collapse_spaces(DropLabelsFrom(text, 1))

FORBIDDEN ==
    << <<"t","u">>,
       <<"t","i">>,
       <<"t","e">>,
       <<"t","u","a">>,
       <<"t","u","o">>,
       <<"s","t","a","i">>,
       <<"s","e","i">>,
       <<"p","e","r"," ","t","e">> >>

is_formal_ok(text) ==
    LET low == lower(text)
    IN  ~ \E p \in 1..Len(FORBIDDEN) :
            \E i \in 1..Len(low) : WordAt(low, FORBIDDEN[p], i)

SentenceEnd == {".", "!", "?"}

\* re.split(r"(?<=[.!?])\s+", s) for s with single spaces only
RECURSIVE SplitSentences(_)
SplitSentences(s) ==
    LET cuts == {i \in 2..Len(s) : s[i] = " " /\ s[i - 1] \in SentenceEnd}
    IN  IF cuts = {} THEN <<s>>
        ELSE LET p == CHOOSE i \in cuts : \A j \in cuts : i <= j
             IN  <<SubSeq(s, 1, p - 1)>> \o SplitSentences(SubSeq(s, p + 1, Len(s)))

trim_to_max_sentences(text, max_sentences) ==
    LET parts == SplitSentences(collapse_spaces(text))
    IN  strip(join(SubSeq(parts, 1, IF Len(parts) < max_sentences
                                      THEN Len(parts) ELSE max_sentences),
                   <<" ">>))

(***************************************************************************)
(* What the session is run with: the question file, the profile, the       *)
(* follow-up template file, the lines the respondent types and the texts   *)
(* the language model returns.                                             *)
(***************************************************************************)
\* the Python None of a field that holds a text
NoneText == <<"None">>

\* "not x" for an Optional[str]
Falsy(text) == text = NoneText \/ text = <<>>

Question1 == <<"C","o","m","e"," ","s","i"," ","è"," ","s","e","n","t","i","t","o"," ","o","g","g","i","?">>
Question2 == <<"C","o","s","a"," ","h","a"," ","f","a","t","t","o"," ","i","e","r","i","?">>
Question3 == <<"È"," ","r","i","u","s","c","i","t","o"," ","a"," ","d","o","r","m","i","r","e","?">>

QuestionBank == << [text |-> Question1], [text |-> Question2], [text |-> Question3] >>

\* the longest question file of the model
MaxQuestions == 2

\* diary_questions.json: any prefix of the bank
QuestionFiles == {SubSeq(QuestionBank, 1, n) : n \in 0..MaxQuestions}

\* the "gender" field of the profile file
ProfileGenders == { <<"f">>, <<>> }

Template1 == <<"P","u","ò"," ","d","i","r","m","i"," ","d","i"," ","p","i","ù","?">>
Template2 == <<"C","'","è"," ","a","l","t","r","o","?">>
Template3 == <<"Q","u","a","n","d","o"," ","s","u","c","c","e","d","e","?">>

\* follow_up_questions.json: keyed as graph.py looks the themes up, keyed as
\* scripts/test_branching.py expects the file, and without any category
FollowupFiles ==
    { [k \in {"evasive", "Paura"} |->
          IF k = "evasive" THEN << [template |-> Template1], [template |-> Template2] >>
          ELSE << [template |-> Template3] >>],
      [k \in {"evasive", "ansia_panico", "dolore_fisico", "solitudine", "tristezza"} |->
          IF k = "evasive" THEN << [template |-> Template1] >>
          ELSE << [template |-> Template3] >>],
      [k \in {"evasive"} |-> << >>] }

\* dict.get(key, [])
get(data, key) == IF key \in DOMAIN data THEN data[key] ELSE << >>

Line_niente == <<"n","i","e","n","t","e">>
Line_empty == <<>>
Line_quit == <<" ","Q">>
Line_panico == <<"H","o"," ","a","v","u","t","o"," ","a","t","t","a","c","c","h","i"," ","d","i"," ","p","a","n","i","c","o">>
Line_libro == <<"H","o"," ","l","e","t","t","o"," ","u","n"," ","l","i","b","r","o">>

\* the lines input() can return
TypedLines == {Line_niente, Line_empty, Line_quit, Line_panico, Line_libro}

Reply_empty == <<>>
Reply_informal == <<"T","i"," ","c","a","p","i","s","c","o",".">>
Reply_formal == <<"V","a","l","i","d","a","z","i","o","n","e",":"," ","I","m","m","a","g","i","n","o"," ","q","u","a","n","t","o"," ","s","i","a"," ","s","t","a","t","o"," ","d","u","r","o",".","\n","C","o","m","e"," ","s","t","a","?">>
Reply_question == <<"C","o","m","e"," ","s","t","a","?">>

\* result.content of the text generator
LLMReplies == {Reply_empty, Reply_informal, Reply_formal, Reply_question}

\* what retrieve_profile_context can return: no document, or some
ProfileContexts == {"", "- name:\nprofile"}

\* get_default_signals()
DefaultSignals ==
    [emotion |-> "neutro/misto", intensity |-> "bassa", themes |-> << >>, confidence |-> "0.3"]

\* the valid extractions of the classifier model used here
ExtractedSignals ==
    { [emotion |-> "ansia/panico", intensity |-> "alta",
       themes |-> << "ansia/panico/respirazione" >>, confidence |-> "0.9"] }

\* the longest session of the model, in classified turns
MaxTurns == 3

(***************************************************************************)
(* graph.py: the dialogue state and the nodes of the graph                 *)
(***************************************************************************)
VARIABLES
    pc,                       \* the node the graph runs next; "END", or "crashed"
                              \* once an exception has left graph.invoke or its caller
    diary_questions,          \* DialogueState fields
    profile_context,
    current_index,
    current_question,
    last_user_answer,
    qa_history,
    done,
    assistant_reply,
    skip_question_print,
    question_mode,
    pending_question,
    branch_count_for_current,
    current_branch_type,
    signals,
    profile_gender,           \* the "gender" field of the file at profile_path
    followup_data,            \* the content of follow_up_questions.json
    branches_triggered,       \* session_logger.branches_triggered
    turn_answer,              \* history: the line the latest ask_and_read read
    llm_calls                 \* history: result.content of each llm.invoke of the
                              \* bridge that has just run

\* scripts/test_branching.py, which calls the classifier outside any session
VARIABLES
    test_answer,              \* the answer of the test case at hand
    test_result               \* what the classifier returned for it, by function

\* the callers of graph.invoke: main() of app.py and generate_session() of
\* generate_evaluation_sessions.py
VARIABLES
    conversation_log,         \* session_logger.conversation_log
    routing_enabled           \* initial_state["routing_enabled"]; None without the key

vars ==
    << pc, diary_questions, profile_context, current_index, current_question,
       last_user_answer, qa_history, done, assistant_reply, skip_question_print,
       question_mode, pending_question, branch_count_for_current,
       current_branch_type, signals, profile_gender, followup_data,
       branches_triggered, turn_answer, llm_calls, test_answer, test_result,
       conversation_log, routing_enabled >>

\* what a session never touches: the test script's case and results
test_case == << test_answer, test_result >>

\* what the caller of graph.invoke holds and no node reads or writes
caller == << conversation_log, routing_enabled >>

\* the fields no node writes
inputs == << diary_questions, profile_gender, followup_data, test_case, caller >>

\* no classifier result yet
NoResult == [f \in {} |-> f]

\* the initial_state both callers build, entered at START -> select_question,
\* and the SessionLogger they construct
initial_state ==
    /\ pc = "select_question"
    /\ diary_questions \in QuestionFiles
    /\ profile_gender \in ProfileGenders
    /\ followup_data \in FollowupFiles
    /\ profile_context = ""
    /\ current_index = 0
    /\ current_question = NoneText
    /\ last_user_answer = NoneText
    /\ qa_history = << >>
    /\ done = FALSE
    /\ assistant_reply = NoneText
    /\ skip_question_print = FALSE
    /\ question_mode = "MAIN"
    /\ pending_question = NoneText
    /\ branch_count_for_current = 0
    /\ current_branch_type = None
    /\ signals = << >>
    /\ branches_triggered = << >>
    /\ turn_answer = NoneText
    /\ llm_calls = << >>
    /\ conversation_log = << >>
    /\ test_answer = NoneText
    /\ test_result = NoResult

\* main() of app.py: its initial_state has no routing_enabled key
Init ==
    /\ initial_state
    /\ routing_enabled = None

\* _get_profile_field(state, "gender", "") followed by gender_label
profile_gender_label == gender_label(profile_gender)

\* route_after_select ignoring the done flag
route_after_select_ignores_done(is_done) == "profile_context"

route_after_select(is_done) == IF is_done THEN "END" ELSE "profile_context"

\* route_after_ask sending a session that is done back to the ask
route_after_ask_asks_again(is_done) == IF is_done THEN "ask_and_read" ELSE "save_current_answer"

\* route_after_ask ignoring the done flag
route_after_ask_always_saves(is_done) == "save_current_answer"

route_after_ask(is_done) == IF is_done THEN "END" ELSE "save_current_answer"

\* route_after_bridge going back to the selection without the advance
route_after_bridge_reselects(is_done) == IF is_done THEN "END" ELSE "select_question"

\* route_after_bridge ignoring the done flag
route_after_bridge_always_advances(is_done) == "advance_to_next_question"

route_after_bridge(is_done) == IF is_done THEN "END" ELSE "advance_to_next_question"

node_select_question ==
    /\ pc = "select_question"
    /\ IF current_index >= Len(diary_questions)
       THEN /\ current_question' = NoneText
            /\ done' = TRUE
       ELSE /\ current_question' =
                   format_question_for_gender(diary_questions[current_index + 1].text,
                                              profile_gender_label)
            /\ done' = done
    /\ pc' = route_after_select(done')
    /\ UNCHANGED << inputs, profile_context, current_index, last_user_answer, qa_history,
                    assistant_reply, skip_question_print, question_mode,
                    pending_question, branch_count_for_current, current_branch_type,
                    signals, branches_triggered, turn_answer, llm_calls >>

\* retriever.invoke returns documents (possibly none)
node_profile_context ==
    /\ pc = "profile_context"
    /\ profile_context' \in ProfileContexts
    /\ pc' = "ask_and_read"
    /\ UNCHANGED << inputs, current_index, current_question, last_user_answer, qa_history,
                    done, assistant_reply, skip_question_print, question_mode,
                    pending_question, branch_count_for_current, current_branch_type,
                    signals, branches_triggered, turn_answer, llm_calls >>

\* retriever.invoke raises: nothing catches it
node_profile_context_raises ==
    /\ pc = "profile_context"
    /\ pc' = "crashed"
    /\ UNCHANGED << inputs, profile_context, current_index, current_question,
                    last_user_answer, qa_history, done, assistant_reply,
                    skip_question_print, question_mode, pending_question,
                    branch_count_for_current, current_branch_type, signals,
                    branches_triggered, turn_answer, llm_calls >>

\* the question ask_and_read and save_current_answer use
question_to_ask == IF Falsy(pending_question) THEN current_question ELSE pending_question

\* node_ask_and_read, input() returning one of lines, in a session of at most
\* turns classified turns
ask_and_read_within(lines, turns) ==
    /\ pc = "ask_and_read"
    /\ Len(signals) < turns
    /\ IF Falsy(question_to_ask)
       THEN /\ last_user_answer' = NoneText
            /\ turn_answer' = NoneText
            /\ UNCHANGED << done, skip_question_print >>
       ELSE \E line \in lines :
               LET ans == strip(line)
               IN  /\ turn_answer' = ans
                   /\ IF lower(ans) = <<"q">>
                      THEN /\ done' = TRUE
                           /\ last_user_answer' = NoneText
                           /\ UNCHANGED skip_question_print
                      ELSE /\ last_user_answer' = ans
                           /\ skip_question_print' = FALSE
                           /\ UNCHANGED done
    /\ pc' = route_after_ask(done')
    /\ UNCHANGED << inputs, profile_context, current_index, current_question, qa_history,
                    assistant_reply, question_mode, pending_question,
                    branch_count_for_current, current_branch_type, signals,
                    branches_triggered, llm_calls >>

\* node_ask_and_read in a session of at most MaxTurns classified turns
ask_and_read(lines) == ask_and_read_within(lines, MaxTurns)

node_ask_and_read == ask_and_read(TypedLines)

\* node_save_current_answer numbering the entries instead of the questions
node_save_current_answer_numbers_entries ==
    /\ pc = "save_current_answer"
    /\ IF ~ Falsy(question_to_ask) /\ ~ Falsy(last_user_answer)
       THEN qa_history' = Append(qa_history,
                                 [question_id     |-> Len(qa_history) + 1,
                                  question        |-> question_to_ask,
                                  answer          |-> last_user_answer,
                                  assistant_reply |-> << >>])
       ELSE UNCHANGED qa_history
    /\ last_user_answer' = NoneText
    /\ pending_question' = NoneText
    /\ pc' = "extract_signals"
    /\ UNCHANGED << inputs, profile_context, current_index, current_question, done,
                    assistant_reply, skip_question_print, question_mode,
                    branch_count_for_current, current_branch_type, signals,
                    branches_triggered, turn_answer, llm_calls >>

\* node_save_current_answer without the reset of pending_question
node_save_current_answer_keeps_pending ==
    /\ pc = "save_current_answer"
    /\ IF ~ Falsy(question_to_ask) /\ ~ Falsy(last_user_answer)
       THEN qa_history' = Append(qa_history,
                                 [question_id     |-> current_index + 1,
                                  question        |-> question_to_ask,
                                  answer          |-> last_user_answer,
                                  assistant_reply |-> << >>])
       ELSE UNCHANGED qa_history
    /\ last_user_answer' = NoneText
    /\ pc' = "extract_signals"
    /\ UNCHANGED << inputs, profile_context, current_index, current_question, done,
                    assistant_reply, skip_question_print, question_mode, pending_question,
                    branch_count_for_current, current_branch_type, signals,
                    branches_triggered, turn_answer, llm_calls >>

node_save_current_answer ==
    /\ pc = "save_current_answer"
    /\ IF ~ Falsy(question_to_ask) /\ ~ Falsy(last_user_answer)
       THEN qa_history' = Append(qa_history,
                                 [question_id     |-> current_index + 1,
                                  question        |-> question_to_ask,
                                  answer          |-> last_user_answer,
                                  assistant_reply |-> << >>])
       ELSE UNCHANGED qa_history
    /\ last_user_answer' = NoneText
    /\ pending_question' = NoneText
    /\ pc' = "extract_signals"
    /\ UNCHANGED << inputs, profile_context, current_index, current_question, done,
                    assistant_reply, skip_question_print, question_mode,
                    branch_count_for_current, current_branch_type, signals,
                    branches_triggered, turn_answer, llm_calls >>

\* qa_history[-1].get("answer", "").strip(), "" when there is no entry
last_answer ==
    IF qa_history = << >> THEN << >> ELSE strip(qa_history[Len(qa_history)].answer)

SignalMinWords == 5

should_extract_signals(answer) ==
    IF answer = << >> \/ strip(answer) = << >> THEN FALSE
    ELSE word_count(strip(answer)) >= SignalMinWords

\* "Limite max 1 follow-up per domanda"
MaxFollowUps == 1

\* route_answer_type without its two early returns to the bridge
route_answer_type_unbounded ==
    IF done THEN "END"
    ELSE IF last_answer = << >> THEN "empathy_bridge"
    ELSE IF is_evasive_answer(last_answer) THEN "follow_up_evasive"
    ELSE IF detect_emotional_theme(last_answer) # None THEN "emotional_deepening"
    ELSE "empathy_bridge"

\* route_answer_type checking the theme before the evasive answer
route_answer_type_theme_first ==
    IF done THEN "END"
    ELSE IF question_mode \in {"FOLLOWUP", "DEEPENING"} THEN "empathy_bridge"
    ELSE IF branch_count_for_current >= MaxFollowUps THEN "empathy_bridge"
    ELSE IF last_answer = << >> THEN "empathy_bridge"
    ELSE IF detect_emotional_theme(last_answer) # None THEN "emotional_deepening"
    ELSE IF is_evasive_answer(last_answer) THEN "follow_up_evasive"
    ELSE "empathy_bridge"

\* the node route_answer_type returns
route_answer_type ==
    IF done THEN "END"
    ELSE IF question_mode \in {"FOLLOWUP", "DEEPENING"} THEN "empathy_bridge"
    ELSE IF branch_count_for_current >= MaxFollowUps THEN "empathy_bridge"
    ELSE IF last_answer = << >> THEN "empathy_bridge"
    ELSE IF is_evasive_answer(last_answer) THEN "follow_up_evasive"
    ELSE IF detect_emotional_theme(last_answer) # None THEN "emotional_deepening"
    ELSE "empathy_bridge"

\* the question_mode route_answer_type leaves behind. Its reset to MAIN is an
\* assignment made inside a conditional-edge function: the graph keeps what the
\* nodes return, and "i router non possono mutare lo state in LangGraph", so the
\* reset is either kept or lost.
modes_after_route ==
    IF ~ done /\ question_mode \in {"FOLLOWUP", "DEEPENING"}
    THEN {"MAIN", question_mode}
    ELSE {question_mode}

\* the entries extract_signals can produce for the latest answer: the default on
\* the fast path and after two failed attempts, an extraction otherwise
signals_data ==
    IF ~ should_extract_signals(last_answer) THEN {DefaultSignals}
    ELSE ExtractedSignals \cup {DefaultSignals}

\* node_extract_signals appending for main-question turns only
node_extract_signals_main_only ==
    /\ pc = "extract_signals"
    /\ IF qa_history = << >> \/ question_mode # "MAIN"
       THEN UNCHANGED signals
       ELSE \E data \in signals_data :
               signals' = Append(signals,
                                 [question_id |-> qa_history[Len(qa_history)].question_id,
                                  extracted   |-> data])
    /\ question_mode' \in modes_after_route
    /\ pc' = route_answer_type
    /\ UNCHANGED << inputs, profile_context, current_index, current_question,
                    last_user_answer, qa_history, done, assistant_reply,
                    skip_question_print, pending_question, branch_count_for_current,
                    current_branch_type, branches_triggered, turn_answer, llm_calls >>

\* node_extract_signals, then the conditional edge route_answer_type
node_extract_signals ==
    /\ pc = "extract_signals"
    /\ IF qa_history = << >>
       THEN UNCHANGED signals
       ELSE \E data \in signals_data :
               signals' = Append(signals,
                                 [question_id |-> qa_history[Len(qa_history)].question_id,
                                  extracted   |-> data])
    /\ question_mode' \in modes_after_route
    /\ pc' = route_answer_type
    /\ UNCHANGED << inputs, profile_context, current_index, current_question,
                    last_user_answer, qa_history, done, assistant_reply,
                    skip_question_print, pending_question, branch_count_for_current,
                    current_branch_type, branches_triggered, turn_answer, llm_calls >>

\* _classifier_llm.invoke raises something other than ValueError on the first
\* attempt of extract_signals: the except clause does not catch it
node_extract_signals_raises ==
    /\ pc = "extract_signals"
    /\ qa_history # << >>
    /\ should_extract_signals(last_answer)
    /\ pc' = "crashed"
    /\ UNCHANGED << inputs, profile_context, current_index, current_question,
                    last_user_answer, qa_history, done, assistant_reply,
                    skip_question_print, question_mode, pending_question,
                    branch_count_for_current, current_branch_type, signals,
                    branches_triggered, turn_answer, llm_calls >>

\* a branch node that does not report the branch to the session logger
enter_branch_unlogged(followup_q, mode, branch_type) ==
    /\ UNCHANGED branches_triggered
    /\ pending_question' = followup_q
    /\ question_mode' = mode
    /\ branch_count_for_current' = branch_count_for_current + 1
    /\ current_branch_type' = branch_type

\* a branch node that counts the branch without recording what triggered it
enter_branch_untagged(followup_q, mode, branch_type) ==
    /\ branches_triggered' =
           Append(branches_triggered,
                  [type              |-> branch_type,
                   theme_display     |-> get_theme_display_name(branch_type),
                   followup_question |-> followup_q])
    /\ pending_question' = followup_q
    /\ question_mode' = mode
    /\ branch_count_for_current' = branch_count_for_current + 1
    /\ UNCHANGED current_branch_type

\* what a branch node writes once it has chosen a template
enter_branch(followup_q, mode, branch_type) ==
    /\ branches_triggered' =
           Append(branches_triggered,
                  [type              |-> branch_type,
                   theme_display     |-> get_theme_display_name(branch_type),
                   followup_question |-> followup_q])
    /\ pending_question' = followup_q
    /\ question_mode' = mode
    /\ branch_count_for_current' = branch_count_for_current + 1
    /\ current_branch_type' = branch_type

node_follow_up_evasive ==
    /\ pc = "follow_up_evasive"
    /\ LET templates == get(followup_data, "evasive")
       IN  IF templates = << >>
           THEN UNCHANGED << branches_triggered, pending_question, question_mode,
                             branch_count_for_current, current_branch_type >>
           ELSE \E chosen \in 1..Len(templates) :
                   enter_branch(templates[chosen].template, "FOLLOWUP", "evasive")
    /\ pc' = "ask_and_read"
    /\ UNCHANGED << inputs, profile_context, current_index, current_question,
                    last_user_answer, qa_history, done, assistant_reply,
                    skip_question_print, signals, turn_answer, llm_calls >>

node_emotional_deepening ==
    /\ pc = "emotional_deepening"
    /\ LET theme == IF qa_history = << >> THEN None
                    ELSE detect_emotional_theme(last_answer)
           templates == get(followup_data, theme)
       IN  IF theme = None \/ templates = << >>
           THEN UNCHANGED << branches_triggered, pending_question, question_mode,
                             branch_count_for_current, current_branch_type >>
           ELSE \E chosen \in 1..Len(templates) :
                   enter_branch(templates[chosen].template, "DEEPENING", theme)
    /\ pc' = "ask_and_read"
    /\ UNCHANGED << inputs, profile_context, current_index, current_question,
                    last_user_answer, qa_history, done, assistant_reply,
                    skip_question_print, signals, turn_answer, llm_calls >>

\* node_advance_to_next_question without the reset of the branch state
node_advance_to_next_question_keeps_branch ==
    /\ pc = "advance_to_next_question"
    /\ current_index' = current_index + 1
    /\ IF current_index' < Len(diary_questions)
       THEN /\ current_question' = diary_questions[current_index' + 1].text
            /\ UNCHANGED done
       ELSE /\ current_question' = NoneText
            /\ done' = TRUE
    /\ assistant_reply' = NoneText
    /\ llm_calls' = << >>
    /\ pc' = "select_question"
    /\ UNCHANGED << inputs, profile_context, last_user_answer, qa_history,
                    skip_question_print, pending_question, signals,
                    branches_triggered, turn_answer, branch_count_for_current,
                    current_branch_type, question_mode >>

\* node_advance_to_next_question skipping a question
node_advance_to_next_question_skips ==
    /\ pc = "advance_to_next_question"
    /\ current_index' = current_index + 2
    /\ IF current_index' < Len(diary_questions)
       THEN /\ current_question' = diary_questions[current_index' + 1].text
            /\ UNCHANGED done
       ELSE /\ current_question' = NoneText
            /\ done' = TRUE
    /\ assistant_reply' = NoneText
    /\ branch_count_for_current' = 0
    /\ current_branch_type' = None
    /\ question_mode' = "MAIN"
    /\ llm_calls' = << >>
    /\ pc' = "select_question"
    /\ UNCHANGED << inputs, profile_context, last_user_answer, qa_history,
                    skip_question_print, pending_question, signals,
                    branches_triggered, turn_answer >>

node_advance_to_next_question ==
    /\ pc = "advance_to_next_question"
    /\ current_index' = current_index + 1
    /\ IF current_index' < Len(diary_questions)
       THEN /\ current_question' = diary_questions[current_index' + 1].text
            /\ UNCHANGED done
       ELSE /\ current_question' = NoneText
            /\ done' = TRUE
    /\ assistant_reply' = NoneText
    /\ branch_count_for_current' = 0
    /\ current_branch_type' = None
    /\ question_mode' = "MAIN"
    /\ llm_calls' = << >>
    /\ pc' = "select_question"
    /\ UNCHANGED << inputs, profile_context, last_user_answer, qa_history,
                    skip_question_print, pending_question, signals,
                    branches_triggered, turn_answer >>

(***************************************************************************)
(* graph.py: node_empathy_bridge                                           *)
(***************************************************************************)
POSITIVE_WORDS ==
    << <<"b","e","n","e">>, <<"b","e","n","i">>, <<"b","u","o","n","o">>, <<"b","u","o","n","a">>, <<"o","k">>, <<"s","i">>, <<"s","ì">> >>

NEGATIVE_WORDS ==
    << <<"m","a","l","e">>, <<"n","o">>, <<"n","i","e","n","t","e">>, <<"n","u","l","l","a">> >>

Reply_piacere == <<"M","i"," ","f","a"," ","p","i","a","c","e","r","e"," ","s","e","n","t","i","r","l","o",".">>
Reply_comprendo == <<"C","o","m","p","r","e","n","d","o",".">>
Reply_capisco == <<"C","a","p","i","s","c","o",".">>
Reply_difficile == <<"C","a","p","i","s","c","o"," ","q","u","a","n","t","o"," ","p","o","s","s","a"," ","e","s","s","e","r","e"," ","d","i","f","f","i","c","i","l","e",".">>
Reply_cari == <<"C","o","m","p","r","e","n","d","o"," ","q","u","a","n","t","o"," ","s","i","a"," ","i","m","p","o","r","t","a","n","t","e"," ","p","e","r"," ","L","e","i"," ","i","l"," ","c","o","n","t","a","t","t","o"," ","c","o","n"," ","i"," ","S","u","o","i"," ","c","a","r","i",".">>
Fallback_short == <<"C","o","m","p","r","e","n","d","o","."," ","L","a"," ","r","i","n","g","r","a","z","i","o"," ","p","e","r"," ","a","v","e","r","l","o"," ","c","o","n","d","i","v","i","s","o"," ","c","o","n"," ","m","e",".">>
Fallback_general == <<"C","a","p","i","s","c","o","."," ","L","a"," ","r","i","n","g","r","a","z","i","o"," ","p","e","r"," ","a","v","e","r"," ","c","o","n","d","i","v","i","s","o"," ","q","u","e","s","t","a"," ","e","s","p","e","r","i","e","n","z","a",".">>
Bridge_prefix == <<"\n","\n","P","e","r"," ","c","a","p","i","r","e"," ","m","e","g","l","i","o",":"," ">>

\* FAST PATH 1: the fixed reply to a one-word answer
one_word_reply(answer) ==
    LET word == strip(lower(answer))
    IN  IF InList(word, POSITIVE_WORDS) THEN Reply_piacere
        ELSE IF InList(word, NEGATIVE_WORDS) THEN Reply_comprendo
        ELSE Reply_capisco

negative_themes == {"anxiety_panic", "loneliness", "fear", "sadness"}

persone_care ==
    << <<"f","i","g","l","i">>, <<"f","i","g","l","i","o">>, <<"f","i","g","l","i","a">>, <<"f","a","m","i","g","l","i","a">>, <<"n","i","p","o","t","i">>, <<"m","o","g","l","i","e">>, <<"m","a","r","i","t","o">>, <<"a","m","i","c","i">>, <<"p","a","r","e","n","t","i">>, <<"g","e","n","i","t","o","r","i">> >>

verbi_contatto ==
    << <<"v","e","d","e","r">>, <<"s","e","n","t","i","r">>, <<"p","a","r","l","a","r">>, <<"c","h","i","a","m","a","r">>, <<"v","i","s","i","t","a">>, <<"s","t","a","r","e"," ","c","o","n">>, <<"p","a","r","l","a","r","e"," ","c","o","n">> >>

verbi_desiderio ==
    << <<"v","o","r","r","e","i">>, <<"m","i"," ","p","i","a","c","e","r","e","b","b","e">>, <<"d","e","s","i","d","e","r">>, <<"s","p","e","r","o">>, <<"v","o","g","l","i","o">>, <<"h","o"," ","b","i","s","o","g","n","o">> >>

tempi_giornata ==
    << <<"m","a","t","t","i","n","a">>, <<"m","a","t","t","i","n","o">>, <<"p","o","m","e","r","i","g","g","i","o">>, <<"s","e","r","a">>, <<"n","o","t","t","e">>, <<"g","i","o","r","n","o">>, <<"t","u","t","t","o"," ","i","l"," ","g","i","o","r","n","o">> >>

contains_any(text, words) == \E w \in 1..Len(words) : contains(text, words[w])

MaxWordsTimeOfDay == 8

MaxWordsGeneric == 4

\* FAST PATH 2: the fixed reply to a follow-up on a negative theme, NoneText when
\* the answer is left to the text generator
negative_followup_reply(answer) ==
    LET last_a_lower       == lower(answer)
        ha_persona         == contains_any(last_a_lower, persone_care)
        ha_verbo_contatto  == contains_any(last_a_lower, verbi_contatto)
        ha_verbo_desiderio == contains_any(last_a_lower, verbi_desiderio)
        ha_tempo           == contains_any(last_a_lower, tempi_giornata)
    IN  IF ha_tempo /\ word_count(answer) <= MaxWordsTimeOfDay THEN Reply_difficile
        ELSE IF ha_persona /\ (ha_verbo_contatto \/ ha_verbo_desiderio) /\ ~ ha_tempo
             THEN Reply_cari
        ELSE IF ha_verbo_contatto \/ ha_verbo_desiderio THEN Reply_difficile
        ELSE IF word_count(answer) <= MaxWordsGeneric THEN Reply_difficile
        ELSE NoneText

MaxSentences == 3

\* strip_questions, strip_labels, trim_to_max_sentences, coerce_gender applied to
\* (result.content or "").strip()
post_process(content, label) ==
    coerce_gender(
        trim_to_max_sentences(strip_labels(strip_questions(strip(content))), MaxSentences),
        label)

\* post_process of every reply the generator can give, computed once
post_processed ==
    [label \in {"MASCHILE", "FEMMINILE", "NON_SPECIFICATO"} |->
        [content \in LLMReplies |-> post_process(content, label)]]

\* whether the first attempt is kept: it is empty or passes the formality check
first_attempt_final ==
    [label \in {"MASCHILE", "FEMMINILE", "NON_SPECIFICATO"} |->
        [content \in LLMReplies |->
            post_processed[label][content] = << >>
                \/ is_formal_ok(post_processed[label][content])]]

ShortAnswerWords == 2

\* the bridge without its fallback: the failed attempt is kept
fallback_reply_missing(answer) == << >>

\* the contextual fallback
fallback_reply(answer) ==
    IF word_count(answer) <= ShortAnswerWords THEN Fallback_short ELSE Fallback_general

\* the bridge asking the generator again whatever its first reply was
llm_invocations_always_retries(first) == 2

\* how many times the generator is invoked when its first reply is first
llm_invocations(first) ==
    IF first_attempt_final[profile_gender_label][first] THEN 1 ELSE 2

\* the generated path without the formality check after the last attempt
generated_reply_unchecked(answer, first, second) ==
    LET empathy == IF llm_invocations(first) = 2
                   THEN post_processed[profile_gender_label][second]
                   ELSE post_processed[profile_gender_label][first]
    IN  IF empathy = << >> THEN fallback_reply(answer) ELSE empathy

\* the empathy text of the generated path, given the generator's replies
generated_reply(answer, first, second) ==
    LET empathy == IF llm_invocations(first) = 2
                   THEN post_processed[profile_gender_label][second]
                   ELSE post_processed[profile_gender_label][first]
    IN  IF empathy = << >> \/ ~ is_formal_ok(empathy) THEN fallback_reply(answer)
        ELSE empathy

\* the bridge without FAST PATH 1: a one-word answer goes to the generator
uses_fixed_reply_negative_only(answer) ==
    /\ branch_count_for_current > 0
    /\ current_branch_type \in negative_themes
    /\ negative_followup_reply(answer) # NoneText

\* whether the bridge answers from a fixed template, without the generator
uses_fixed_reply(answer) ==
    \/ word_count(answer) = 1
    \/ /\ branch_count_for_current > 0
       /\ current_branch_type \in negative_themes
       /\ negative_followup_reply(answer) # NoneText

fixed_reply(answer) ==
    IF word_count(answer) = 1 THEN one_word_reply(answer)
    ELSE negative_followup_reply(answer)

\* the tail of every path of the bridge: store the reply, announce the next
\* question or finish
bridge_to_next(empathy) ==
    /\ qa_history' =
           IF qa_history # << >>
           THEN [qa_history EXCEPT ![Len(qa_history)].assistant_reply = empathy]
           ELSE qa_history
    /\ IF current_index + 1 < Len(diary_questions)
       THEN /\ assistant_reply' =
                   empathy \o Bridge_prefix \o
                   format_question_for_gender(diary_questions[current_index + 2].text,
                                              profile_gender_label)
            /\ skip_question_print' = TRUE
            /\ UNCHANGED done
       ELSE /\ assistant_reply' = empathy
            /\ done' = TRUE
            /\ UNCHANGED skip_question_print

node_empathy_bridge ==
    /\ pc = "empathy_bridge"
    /\ IF done
       THEN /\ assistant_reply' = NoneText
            /\ UNCHANGED << qa_history, done, skip_question_print, llm_calls >>
       ELSE IF uses_fixed_reply(last_answer)
            THEN /\ bridge_to_next(fixed_reply(last_answer))
                 /\ llm_calls' = << >>
            ELSE \E first \in LLMReplies :
                    \E second \in IF llm_invocations(first) = 2 THEN LLMReplies ELSE {first} :
                        /\ bridge_to_next(generated_reply(last_answer, first, second))
                        /\ llm_calls' = IF llm_invocations(first) = 2
                                        THEN << first, second >> ELSE << first >>
    /\ pc' = route_after_bridge(done')
    /\ UNCHANGED << inputs, profile_context, current_index, current_question,
                    last_user_answer, question_mode, pending_question,
                    branch_count_for_current, current_branch_type, signals,
                    branches_triggered, turn_answer >>

\* llm.invoke raises in the bridge: nothing catches it
node_empathy_bridge_raises ==
    /\ pc = "empathy_bridge"
    /\ ~ done
    /\ ~ uses_fixed_reply(last_answer)
    /\ pc' = "crashed"
    /\ UNCHANGED << inputs, profile_context, current_index, current_question,
                    last_user_answer, qa_history, done, assistant_reply,
                    skip_question_print, question_mode, pending_question,
                    branch_count_for_current, current_branch_type, signals,
                    branches_triggered, turn_answer, llm_calls >>

Next ==
    \/ node_select_question
    \/ node_profile_context
    \/ node_profile_context_raises
    \/ node_ask_and_read
    \/ node_save_current_answer
    \/ node_extract_signals
    \/ node_extract_signals_raises
    \/ node_follow_up_evasive
    \/ node_emotional_deepening
    \/ node_empathy_bridge
    \/ node_empathy_bridge_raises
    \/ node_advance_to_next_question

Spec == Init /\ [][Next]_vars

\* lines that are evasive and carry a theme keyword as well - of sadness, of
\* fear - and a line that only carries a theme
ThemedLines ==
    { <<"n","e","s","s","u","n","o">>,
      <<"n","o",","," ","h","o"," ","p","a","u","r","a">>,
      Line_panico }

\* node_ask_and_read with a respondent who types such lines
node_ask_and_read_themed == ask_and_read(ThemedLines)

NextThemed ==
    \/ node_select_question
    \/ node_profile_context
    \/ node_profile_context_raises
    \/ node_ask_and_read_themed
    \/ node_save_current_answer
    \/ node_extract_signals
    \/ node_extract_signals_raises
    \/ node_follow_up_evasive
    \/ node_emotional_deepening
    \/ node_empathy_bridge
    \/ node_empathy_bridge_raises
    \/ node_advance_to_next_question

SpecThemed == Init /\ [][NextThemed]_vars

\* one-word lines - a positive word, a negative word, another word - and a line
\* of several words
OneWordLines ==
    { <<"O","k">>,
      Line_niente,
      <<"S","e","r","a">>,
      Line_panico }

\* node_ask_and_read with a respondent who types such lines
node_ask_and_read_one_word == ask_and_read(OneWordLines)

NextOneWord ==
    \/ node_select_question
    \/ node_profile_context
    \/ node_profile_context_raises
    \/ node_ask_and_read_one_word
    \/ node_save_current_answer
    \/ node_extract_signals
    \/ node_extract_signals_raises
    \/ node_follow_up_evasive
    \/ node_emotional_deepening
    \/ node_empathy_bridge
    \/ node_empathy_bridge_raises
    \/ node_advance_to_next_question

SpecOneWord == Init /\ [][NextOneWord]_vars

\* the longest session of a respondent whose every answer calls for a follow-up
MaxInsistentTurns == 4

\* node_ask_and_read with a respondent who answers "niente" or tells of panic
\* attacks, whatever is asked
node_ask_and_read_insistent ==
    ask_and_read_within({Line_niente, Line_panico}, MaxInsistentTurns)

NextInsistent ==
    \/ node_select_question
    \/ node_profile_context
    \/ node_profile_context_raises
    \/ node_ask_and_read_insistent
    \/ node_save_current_answer
    \/ node_extract_signals
    \/ node_extract_signals_raises
    \/ node_follow_up_evasive
    \/ node_emotional_deepening
    \/ node_empathy_bridge
    \/ node_empathy_bridge_raises
    \/ node_advance_to_next_question

SpecInsistent == Init /\ [][NextInsistent]_vars

(***************************************************************************)
(* app.py and generate_evaluation_sessions.py: what the callers do with    *)
(* final_state once graph.invoke has returned                              *)
(***************************************************************************)
\* the entries log_qa appends for history, numbered by enumerate(..., start=1)
logged(history) ==
    [i \in 1..Len(history) |->
        [question_id     |-> i,
         question        |-> history[i].question,
         user_answer     |-> history[i].answer,
         assistant_reply |-> history[i].assistant_reply]]

\* what no step of a caller changes
final_state ==
    << diary_questions, profile_context, current_index, current_question,
       last_user_answer, qa_history, done, assistant_reply, skip_question_print,
       question_mode, pending_question, branch_count_for_current,
       current_branch_type, signals, profile_gender, followup_data,
       branches_triggered, turn_answer, llm_calls, test_case, routing_enabled >>

\* for i, qa in enumerate(final_state["qa_history"], start=1): log_qa(i, ...)
log_qa ==
    /\ pc = "END"
    /\ conversation_log' = conversation_log \o logged(qa_history)
    /\ pc' = "session_save"
    /\ UNCHANGED final_state

\* main(): session_logger.save(profile_data, final_state.get("signals", [])).
\* SessionLogger.save takes profile_data only, so the call raises TypeError
\* before save runs, and nothing in main catches it
main_save ==
    /\ pc = "session_save"
    /\ pc' = "crashed"
    /\ UNCHANGED << final_state, conversation_log >>

NextMain ==
    \/ Next
    \/ log_qa
    \/ main_save

SpecMain == Init /\ [][NextMain]_vars

\* generate_session(): the initial_state carries the routing_enabled flag
InitEval ==
    /\ initial_state
    /\ routing_enabled \in BOOLEAN

\* generate_session(): the same call to save, inside try; the TypeError is
\* caught by "except Exception", which prints it and leaves the manifest as it was
generate_session_save ==
    /\ pc = "session_save"
    /\ pc' = "generation_failed"
    /\ UNCHANGED << final_state, conversation_log >>

NextEval ==
    \/ Next
    \/ log_qa
    \/ generate_session_save

SpecEval == InitEval /\ [][NextEval]_vars

(***************************************************************************)
(* compute_metrics.py: the metrics computed from the JSON of a session,    *)
(* whose "qa_history" is the conversation_log of the session logger        *)
(***************************************************************************)
\* M1 of compute_session_metrics: total_questions >= expected_questions
completed(session_qa_history, expected_questions) ==
    Len(session_qa_history) >= expected_questions

\* the length limit of is_evasive
MetricsEvasiveMaxLen == 15

\* is_evasive of compute_metrics.py, whose EVASIVE_KEYWORDS is the list of
\* response_classifier.py
is_evasive(answer) ==
    LET normalized == strip(lower(answer))
    IN  IF normalized = << >> \/ Len(normalized) <= MetricsEvasiveMaxLen
        THEN contains_any(normalized, EVASIVE_KEYWORDS)
        ELSE FALSE

(***************************************************************************)
(* scripts/test_branching.py: the classifier applied to single answers     *)
(***************************************************************************)
\* the answers of test_cases in test_evasive_detection
EvasiveTestAnswers ==
    { <<"n","i","e","n","t","e">>,
      <<"n","o","n"," ","r","i","c","o","r","d","o">>,
      <<"n","o">>,
      <<"n","o","n"," ","s","o">>,
      <<"H","o"," ","v","i","s","t","o"," ","i"," ","m","i","e","i"," ","n","i","p","o","t","i">>,
      <<"M","i"," ","s","o","n","o"," ","s","e","n","t","i","t","o"," ","f","e","l","i","c","e">>,
      <<"b","o","h">>,
      <<>>,
      <<"n","u","l","l","a"," ","d","i"," ","p","a","r","t","i","c","o","l","a","r","e">> }

\* the answers of test_cases in test_emotional_theme_detection that the
\* evasive test does not have
ThemeTestAnswers ==
    { <<"H","o"," ","a","v","u","t","o"," ","a","t","t","a","c","c","h","i"," ","d","i"," ","p","a","n","i","c","o">>,
      <<"M","i"," ","s","e","n","t","o"," ","m","o","l","t","o"," ","a","n","s","i","o","s","o">>,
      <<"H","o"," ","d","o","l","o","r","e"," ","a","l","l","a"," ","s","c","h","i","e","n","a">>,
      <<"M","i"," ","f","a"," ","m","a","l","e"," ","t","u","t","t","o"," ","i","l"," ","c","o","r","p","o">>,
      <<"M","i"," ","s","e","n","t","o"," ","m","o","l","t","o"," ","s","o","l","o">>,
      <<"N","e","s","s","u","n","o"," ","m","i"," ","v","i","e","n","e"," ","a"," ","t","r","o","v","a","r","e">>,
      <<"S","o","n","o"," ","t","r","i","s","t","e">>,
      <<"M","i"," ","s","e","n","t","o"," ","s","c","o","r","a","g","g","i","a","t","o">>,
      <<"N","o","n"," ","c","e"," ","l","a"," ","f","a","c","c","i","o"," ","p","i","ù">>,
      <<"M","i"," ","s","o","n","o"," ","s","e","n","t","i","t","o"," ","b","e","n","e">> }

\* the answer of test_priority_order
PriorityTestAnswer == <<"H","o"," ","p","a","n","i","c","o"," ","e"," ","d","o","l","o","r","e"," ","e"," ","m","i"," ","s","e","n","t","o"," ","s","o","l","o"," ","e"," ","t","r","i","s","t","e">>

\* answers at the length limit of the evasive rule, padded, and carrying a
\* keyword inside another word
BoundaryAnswers ==
    { <<"n","i","e","n","t","e"," ","d","i"," ","n","u","o","v","o">>,
      <<"n","o","n"," ","r","i","c","o","r","d","o"," ","b","e","n","e">>,
      <<"n","o","n"," ","m","i"," ","v","i","e","n","e"," ","i","n"," ","m","e","n","t","e">>,
      <<" ","N","I","E","N","T","E"," ">>,
      <<"S","o","n","o"," ","n","e","r","v","o","s","o">>,
      <<"S","t","o"," ","b","e","n","o","n","e">> }

\* words an answer is composed of: evasive keywords, theme keywords of each
\* priority, a fragment of a keyword, a neutral word, nothing
Fragments ==
    << <<>>,
       <<"n","o">>,
       <<"a","n">>,
       <<"n","i","e","n","t","e">>,
       <<"b","o","h">>,
       <<"a","n","s","i","a">>,
       <<"t","r","i","s","t","e">>,
       <<"f","e","l","i","c","e">>,
       <<"s","t","u","f","o">>,
       <<"n","i","p","o","t","i">> >>

\* the most words a composed answer has
MaxFragments == 2

Conjunction == <<" ","e"," ">>

\* the answers made of the words whose indices are in picks, joined by " e "
Composed(picks) == join([i \in 1..Len(picks) |-> Fragments[picks[i]]], Conjunction)

ComposedAnswers ==
    UNION { { Composed(picks) : picks \in [1..n -> 1..Len(Fragments)] } : n \in 0..MaxFragments }

\* the answers the classifier is run on
TestAnswers ==
    EvasiveTestAnswers \cup ThemeTestAnswers \cup {PriorityTestAnswer}
        \cup BoundaryAnswers \cup ComposedAnswers

\* the script builds no session
InitTest ==
    /\ pc = "test_branching"
    /\ diary_questions = << >>
    /\ profile_gender = << >>
    /\ followup_data = [k \in {"evasive"} |-> << >>]
    /\ profile_context = ""
    /\ current_index = 0
    /\ current_question = NoneText
    /\ last_user_answer = NoneText
    /\ qa_history = << >>
    /\ done = FALSE
    /\ assistant_reply = NoneText
    /\ skip_question_print = FALSE
    /\ question_mode = "MAIN"
    /\ pending_question = NoneText
    /\ branch_count_for_current = 0
    /\ current_branch_type = None
    /\ signals = << >>
    /\ branches_triggered = << >>
    /\ turn_answer = NoneText
    /\ llm_calls = << >>
    /\ conversation_log = << >>
    /\ routing_enabled = None
    /\ test_answer \in TestAnswers
    /\ test_result = NoResult

\* the state of a session, which the classifier neither reads nor writes
session ==
    << pc, diary_questions, profile_context, current_index, current_question,
       last_user_answer, qa_history, done, assistant_reply, skip_question_print,
       question_mode, pending_question, branch_count_for_current,
       current_branch_type, signals, profile_gender, followup_data,
       branches_triggered, turn_answer, llm_calls, caller >>

\* result = is_evasive_answer(answer)
test_evasive_detection ==
    /\ pc = "test_branching"
    /\ "is_evasive" \notin DOMAIN test_result
    /\ test_result' = test_result @@ [is_evasive |-> is_evasive_answer(test_answer)]
    /\ UNCHANGED << session, test_answer >>

\* result = detect_emotional_theme(answer)
test_emotional_theme_detection ==
    /\ pc = "test_branching"
    /\ "theme" \notin DOMAIN test_result
    /\ test_result' = test_result @@ [theme |-> detect_emotional_theme(test_answer)]
    /\ UNCHANGED << session, test_answer >>

NextTest ==
    \/ test_evasive_detection
    \/ test_emotional_theme_detection

SpecTest == InitTest /\ [][NextTest]_vars

(***************************************************************************)
(* Properties                                                              *)
(***************************************************************************)
\* the last entry of a non-empty sequence
Last(seq) == seq[Len(seq)]

\* the depth the specification gives the deepening loop
max_depth == 2

\* a step in which route_answer_type takes its decision
RoutingStep == pc = "extract_signals" /\ pc' # "crashed"

C3_EvasiveOpensFollowUp ==
    [][/\ (/\ RoutingStep
           /\ question_mode = "MAIN"
           /\ branch_count_for_current = 0
           /\ turn_answer # NoneText
           /\ is_evasive_answer(turn_answer)
           /\ get(followup_data, "evasive") # << >>)
              => pc' = "follow_up_evasive"
       /\ (pc = "follow_up_evasive" /\ get(followup_data, "evasive") # << >>)
              => /\ question_mode' # "MAIN"
                 /\ branch_count_for_current' = 1
                 /\ current_branch_type' = "evasive"
                 /\ ~ Falsy(pending_question')]_vars

\* C4: a branch is selected only while no follow-up has been asked for the
\* current main question; the count of follow-ups asked goes back to 0 only when
\* current_index advances; and after the bridge, which the answer to a follow-up
\* always leads to, nothing is asked before the advance.
C4_OneEpisodePerQuestion ==
    /\ [][pc' \in {"follow_up_evasive", "emotional_deepening"}
              => branch_count_for_current = 0]_vars
    /\ [][branch_count_for_current' < branch_count_for_current
              => current_index' = current_index + 1]_vars
    /\ [][(RoutingStep /\ branch_count_for_current >= 1) => pc' = "empathy_bridge"]_vars
    /\ [][pc = "empathy_bridge"
              => pc' \in {"advance_to_next_question", "END", "crashed"}]_vars

\* the episode of a main question was left on an answer to the follow-up that
\* carries a theme, and the engine is about to advance
C4_Witness ==
    /\ pc = "advance_to_next_question"
    /\ branch_count_for_current = 1
    /\ branches_triggered # << >>
    /\ Len(qa_history) >= 2
    /\ Last(qa_history).question \in {Template1, Template2, Template3}
    /\ detect_emotional_theme(last_answer) # None

\* an answer that would open a branch: evasive, or carrying a theme
Salient(answer) == is_evasive_answer(answer) \/ detect_emotional_theme(answer) # None

\* C5: below max_depth, an answer to a deepening turn that is still
\* evasive or still carries a theme keeps the controller in the branch for
\* another follow-up.
C5_SecondFollowUp ==
    [][(/\ RoutingStep
        /\ question_mode \in {"FOLLOWUP", "DEEPENING"}
        /\ branch_count_for_current < max_depth
        /\ turn_answer = last_answer
        /\ Salient(last_answer))
           => pc' \in {"follow_up_evasive", "emotional_deepening"}]_vars

\* C6: an answer with an anxiety/panic keyword that is not evasive is classified
\* "ansia_panico", and the deepening branch it opens records that branch_type.
C6_PanicIsAnsiaPanico ==
    /\ (pc = "emotional_deepening" /\ contains_any_keyword(last_answer, PAURA_KEYWORDS))
           => detect_emotional_theme(last_answer) = "ansia_panico"
    /\ (/\ pc = "ask_and_read"
        /\ question_mode = "DEEPENING"
        /\ contains_any_keyword(last_answer, PAURA_KEYWORDS))
           => current_branch_type = "ansia_panico"

\* C7: no session aborts because a retrieval, generation or recording call
\* failed.
C7_NeverAborts == pc # "crashed"

\* C8: the quit signal at ASK sets done and ends the session at once; qa_history,
\* signals and the branch log stay as they were, and no step follows.
C8_QuitEndsSession ==
    /\ [][(pc = "ask_and_read" /\ lower(turn_answer') = <<"q">>)
              => /\ done'
                 /\ pc' = "END"
                 /\ qa_history' = qa_history
                 /\ signals' = signals
                 /\ branches_triggered' = branches_triggered
                 /\ assistant_reply' = assistant_reply]_vars
    /\ [][pc # "END"]_vars

\* the respondent has quit in a deepening turn
C8_Witness ==
    /\ pc = "END"
    /\ done
    /\ lower(turn_answer) = <<"q">>
    /\ question_mode \in {"FOLLOWUP", "DEEPENING"}
    /\ Len(qa_history) = 1

\* the templates the branch node at pc looks up
matched_templates ==
    IF pc = "follow_up_evasive" THEN get(followup_data, "evasive")
    ELSE get(followup_data, detect_emotional_theme(last_answer))

\* C9: with no template for the matched category the engine skips the branch
\* and goes to the bridge for the answer already given: branch_count stays 0,
\* the mode stays MAIN and the main question is not asked again.
C9_MissingTemplateSkipsBranch ==
    [][(pc \in {"follow_up_evasive", "emotional_deepening"} /\ matched_templates = << >>)
           => /\ pc' = "empathy_bridge"
              /\ branch_count_for_current' = 0
              /\ question_mode' = "MAIN"]_vars

\* the bridge has just run to its end
BridgeDone ==
    pc = "advance_to_next_question" \/ (pc = "END" /\ assistant_reply # NoneText)

\* C10: whatever the answer, the branch state and the generator's replies, the
\* bridge ends with a non-empty reply; when every reply of the generator was ""
\* the reply is one of the two fallback strings; and the session then advances
\* by one question, or is done after the last one.
C10_BridgeReplyNeverEmpty ==
    /\ [](BridgeDone =>
            /\ ~ Falsy(assistant_reply)
            /\ qa_history # << >> => Last(qa_history).assistant_reply # << >>
            /\ (llm_calls # << >> /\ \A i \in 1..Len(llm_calls) : llm_calls[i] = << >>)
                   => /\ qa_history # << >> =>
                          Last(qa_history).assistant_reply \in {Fallback_short, Fallback_general}
                      /\ \E fb \in {Fallback_short, Fallback_general} :
                             SubSeq(assistant_reply, 1, Len(fb)) = fb
            /\ pc = "END" => (done /\ current_index + 1 = Len(diary_questions)))
    /\ [][pc = "advance_to_next_question"
              => (current_index' = current_index + 1 /\ current_index' < Len(diary_questions))]_vars

\* the generator returned "" for an answer of more than two words and the bridge
\* stored the general fallback before advancing
C10_Witness ==
    /\ pc = "advance_to_next_question"
    /\ llm_calls = << Reply_empty >>
    /\ qa_history # << >>
    /\ word_count(Last(qa_history).answer) > ShortAnswerWords
    /\ Last(qa_history).assistant_reply = Fallback_general

\* the trimmed, lower-cased answer of the test case
trimmed_answer == strip(lower(test_answer))

C12_EvasiveTestTable ==
    ("is_evasive" \in DOMAIN test_result /\ test_answer \in EvasiveTestAnswers) =>
        test_result.is_evasive =
            (test_answer \notin { <<"H","o"," ","v","i","s","t","o"," ","i"," ","m","i","e","i"," ","n","i","p","o","t","i">>,
                                  <<"M","i"," ","s","o","n","o"," ","s","e","n","t","i","t","o"," ","f","e","l","i","c","e">> })

\* the themes in the order detect_emotional_theme checks them
THEME_PRIORITY == << "Paura", "Rabbia", "Tristezza", "Felicità" >>

keywords_of(theme) ==
    CASE theme = "Paura"     -> PAURA_KEYWORDS
      [] theme = "Rabbia"    -> RABBIA_KEYWORDS
      [] theme = "Tristezza" -> TRISTEZZA_KEYWORDS
      [] theme = "Felicità"  -> FELICITA_KEYWORDS

\* the positions in THEME_PRIORITY of the themes the test case has a keyword of
matched_themes ==
    { i \in 1..Len(THEME_PRIORITY) :
        \E k \in 1..Len(keywords_of(THEME_PRIORITY[i])) :
            contains(trimmed_answer, keywords_of(THEME_PRIORITY[i])[k]) }

C14_NoThemeForWellBeing ==
    ("theme" \in DOMAIN test_result
        /\ \/ test_answer \in { <<"M","i"," ","s","o","n","o"," ","s","e","n","t","i","t","o"," ","b","e","n","e">>,
                               <<"H","o"," ","v","i","s","t","o"," ","i"," ","m","i","e","i"," ","n","i","p","o","t","i">> }
           \/ matched_themes = {})
        => test_result.theme = None

\* C17: an answer whose normalized form is shorter than 3 characters gets no
\* theme, also when it is part of a theme keyword.
C17_ShortAnswerNoTheme ==
    ("theme" \in DOMAIN test_result /\ Len(trimmed_answer) < 3) => test_result.theme = None

\* "an", which "ansia" begins with, has been classified without a theme
C17_Witness ==
    /\ test_answer = <<"a","n">>
    /\ contains(PAURA_KEYWORDS[2], trimmed_answer)
    /\ "theme" \in DOMAIN test_result
    /\ test_result.theme = None

\* the nodes that may run right after a node, in the order of the steps; an
\* unhandled exception ends the run at any node that calls out
successors(node) ==
    CASE node = "select_question"          -> {"profile_context", "END"}
      [] node = "profile_context"          -> {"ask_and_read", "crashed"}
      [] node = "ask_and_read"             -> {"save_current_answer", "END"}
      [] node = "save_current_answer"      -> {"extract_signals"}
      [] node = "extract_signals"          -> {"follow_up_evasive", "emotional_deepening",
                                               "empathy_bridge", "crashed"}
      [] node = "follow_up_evasive"        -> {"ask_and_read"}
      [] node = "emotional_deepening"      -> {"ask_and_read"}
      [] node = "empathy_bridge"           -> {"advance_to_next_question", "END", "crashed"}
      [] node = "advance_to_next_question" -> {"select_question"}
      [] OTHER                             -> {}

\* C15: the steps run only in the order select, context, ask, save, classify and
\* route, then either back to ask through a branch node or to the bridge, the
\* advance and the next select: a save follows an ask, the bridge follows the
\* routing of the same turn, and the context is retrieved once per main question,
\* after its selection only, the selection following an advance to a new index.
C15_StepOrder ==
    /\ [][pc' \in successors(pc)]_vars
    /\ [][pc' = "save_current_answer" => pc = "ask_and_read"]_vars
    /\ [][pc' = "empathy_bridge" => pc = "extract_signals"]_vars
    /\ [][pc' = "profile_context" => pc = "select_question"]_vars
    /\ [][pc' = "select_question"
              => (pc = "advance_to_next_question" /\ current_index' = current_index + 1)]_vars

\* the first question went through a follow-up, the bridge and the advance, and
\* the context of the second question is next
C15_Witness ==
    /\ pc = "profile_context"
    /\ current_index = 1
    /\ branches_triggered # << >>
    /\ Len(qa_history) = 2

\* C16: with no question the session ends at once: select sets done at index 0,
\* nothing is asked, retrieved, generated or recorded.
C16_EmptyQuestionSet ==
    diary_questions = << >> =>
        /\ pc \in {"select_question", "END"}
        /\ pc = "END" => done
        /\ current_index = 0
        /\ turn_answer = NoneText
        /\ profile_context = ""
        /\ llm_calls = << >>
        /\ qa_history = << >>
        /\ signals = << >>
        /\ assistant_reply = NoneText

\* the session without questions has ended
C16_Witness ==
    /\ diary_questions = << >>
    /\ pc = "END"
    /\ done
    /\ current_question = NoneText

\* C19: qa_history has an entry for every main question that was answered and
\* passed on to routing: one for each question before current_index, and one for
\* the current question once its answer has reached the bridge.
C19_HistoryCoversAnswered ==
    /\ Len(qa_history) >= current_index
    /\ pc \in {"empathy_bridge", "advance_to_next_question"}
           => Len(qa_history) >= current_index + 1

\* whether the ids of the entries never go down
ids_non_decreasing(history) ==
    \A i, j \in 1..Len(history) : i <= j => history[i].question_id <= history[j].question_id

\* C20: an entry the save step appends has question_id = current_index + 1 and
\* an empty reply, in a follow-up turn as in a main turn, so that the entry of a
\* follow-up has the id of its main question; the ids in qa_history never go
\* down; and the save step leaves pending_question and last_user_answer cleared.
C20_SavedEntry ==
    /\ [](ids_non_decreasing(qa_history))
    /\ [][pc = "save_current_answer"
              => /\ Falsy(pending_question')
                 /\ Falsy(last_user_answer')
                 /\ qa_history' # qa_history
                        => /\ Len(qa_history') = Len(qa_history) + 1
                           /\ SubSeq(qa_history', 1, Len(qa_history)) = qa_history
                           /\ Last(qa_history').question_id = current_index + 1
                           /\ Last(qa_history').assistant_reply = << >>]_vars

\* the answer to the follow-up of the second question has been saved under the
\* id of that question
C20_Witness ==
    /\ pc = "extract_signals"
    /\ question_mode # "MAIN"
    /\ current_index = 1
    /\ Len(qa_history) >= 2
    /\ Last(qa_history).question_id = 2
    /\ qa_history[Len(qa_history) - 1].question_id = 2
    /\ Last(qa_history).assistant_reply = << >>
    /\ Falsy(pending_question)

\* C21: the bridge stores its reply in the qa_history entry of the answer given
\* in the turn it responds to, an entry that holds no reply yet, and leaves the
\* other entries alone; a reply once stored in an entry is never changed.
C21_ReplyStoredOnce ==
    /\ [][\A i \in 1..Len(qa_history) :
              qa_history[i].assistant_reply # << >>
                  => qa_history'[i].assistant_reply = qa_history[i].assistant_reply]_vars
    /\ [][(pc = "empathy_bridge" /\ ~ done /\ pc' # "crashed")
              => /\ qa_history # << >>
                 /\ Last(qa_history).answer = turn_answer
                 /\ Last(qa_history).assistant_reply = << >>
                 /\ Last(qa_history').assistant_reply # << >>
                 /\ \A i \in 1..(Len(qa_history) - 1) : qa_history'[i] = qa_history[i]]_vars

\* whether text begins with head
begins(text, head) == Len(text) >= Len(head) /\ SubSeq(text, 1, Len(head)) = head

\* whether the post-processed reply passes the formality predicate, computed once
formal_ok ==
    [label \in {"MASCHILE", "FEMMINILE", "NON_SPECIFICATO"} |->
        [content \in LLMReplies |-> is_formal_ok(post_processed[label][content])]]

\* C22: in one bridge step the generator is invoked at most twice, the second
\* time only when the post-processed first output is non-empty and fails the
\* formality predicate; and the reply is the fallback string - the short-answer
\* one for an answer of at most 2 words, the general one otherwise - exactly
\* when the post-processed output of the last invocation is empty or fails the
\* formality predicate, that output being the reply otherwise.
C22_RetryOnceThenFallback ==
    [][(pc = "empathy_bridge" /\ ~ done /\ pc' # "crashed")
          => LET calls == llm_calls'
                 candidate(i) == post_processed[profile_gender_label][calls[i]]
                 rejected(i) == candidate(i) = << >> \/ ~ formal_ok[profile_gender_label][calls[i]]
                 fallback == IF word_count(last_answer) <= 2
                             THEN Fallback_short ELSE Fallback_general
             IN  /\ Len(calls) <= 2
                 /\ Len(calls) = 2 => (candidate(1) # << >> /\ rejected(1))
                 /\ calls # << >> =>
                        /\ begins(assistant_reply', fallback) <=> rejected(Len(calls))
                        /\ \A fb \in {Fallback_short, Fallback_general} :
                               begins(assistant_reply', fb) => fb = fallback
                        /\ ~ rejected(Len(calls)) => begins(assistant_reply', candidate(Len(calls)))
                        /\ qa_history # << >> =>
                               begins(assistant_reply', Last(qa_history').assistant_reply)]_vars

\* the generator gave an informal reply twice and the bridge stored the general
\* fallback
C22_Witness ==
    /\ pc \in {"advance_to_next_question", "END"}
    /\ llm_calls = << Reply_informal, Reply_informal >>
    /\ qa_history # << >>
    /\ word_count(Last(qa_history).answer) > 2
    /\ Last(qa_history).assistant_reply = Fallback_general

\* C23: once the dialogue has ended with done true, every qa_history entry is
\* recorded with the session recorder, in order, and the recorder is then
\* finalized with the summary metadata and the signals without raising: the
\* hand-off ends with the session saved and never aborts the process.
C23_SessionHandedOff ==
    /\ [](pc = "session_save"
              => /\ done
                 /\ Len(conversation_log) = Len(qa_history)
                 /\ \A i \in 1..Len(qa_history) :
                        /\ conversation_log[i].question = qa_history[i].question
                        /\ conversation_log[i].user_answer = qa_history[i].answer
                        /\ conversation_log[i].assistant_reply = qa_history[i].assistant_reply)
    /\ [][pc = "session_save" => pc' = "session_saved"]_vars

\* C24: in a session started with routing_enabled = False no branch is ever
\* taken: branch_count stays 0, no branch is logged, and routing never selects
\* the follow-up or the deepening node.
C24_NoRoutingNoBranch ==
    routing_enabled = FALSE =>
        /\ branch_count_for_current = 0
        /\ branches_triggered = << >>
        /\ pc \notin {"follow_up_evasive", "emotional_deepening"}

\* C25: current_index changes only in the advance step, which increments it and
\* in the same step sets branch_count to 0, branch_type to None and the mode to
\* MAIN; and branch_count is lowered by no step that leaves current_index as it
\* is.
C25_ResetOnAdvance ==
    /\ [][current_index' # current_index => pc = "advance_to_next_question"]_vars
    /\ [][pc = "advance_to_next_question"
              => /\ current_index' = current_index + 1
                 /\ branch_count_for_current' = 0
                 /\ current_branch_type' = None
                 /\ question_mode' = "MAIN"]_vars
    /\ [][branch_count_for_current' < branch_count_for_current
              => (pc = "advance_to_next_question" /\ current_index' # current_index)]_vars

\* the advance after a question that had a follow-up has cleared the branch
\* state
C25_Witness ==
    /\ pc = "select_question"
    /\ current_index = 1
    /\ Len(branches_triggered) = 1
    /\ branch_count_for_current = 0
    /\ current_branch_type = None
    /\ question_mode = "MAIN"

\* C26 as stated: current_index never decreases and changes only by +1, and in
\* every state in which the session is not done it is the index of an existing
\* question.
C26_IndexInRange ==
    /\ [][current_index' = current_index \/ current_index' = current_index + 1]_vars
    /\ [](~ done => (0 <= current_index /\ current_index < Len(diary_questions)))

\* C26 as amended: current_index never decreases and changes only by +1; in
\* every state in which the session is not done it is the index of an existing
\* question, except that a session started with no question has index 0 and is
\* not done until its first selection has run.
C26_IndexInRangeOnceSelected ==
    /\ [][current_index' = current_index \/ current_index' = current_index + 1]_vars
    /\ [](~ done =>
            /\ 0 <= current_index
            /\ \/ current_index < Len(diary_questions)
               \/ (diary_questions = << >> /\ pc = "select_question" /\ current_index = 0))

\* the second question is being asked
C26_Witness ==
    /\ pc = "ask_and_read"
    /\ ~ done
    /\ current_index = 1
    /\ Len(diary_questions) = 2
    /\ Len(qa_history) >= 1

\* whether text ends with tail
ends(text, tail) ==
    Len(text) >= Len(tail) /\ SubSeq(text, Len(text) - Len(tail) + 1, Len(text)) = tail

\* C27: the bridge of the last main question sets done and ends the session
\* with its reply, current_index staying at the last index and nothing being
\* asked after it; the bridge of an earlier question surfaces its reply
\* followed by the text of the next question, and the engine then advances by
\* exactly one question.
C27_LastQuestionEnds ==
    /\ [][(pc = "empathy_bridge" /\ pc' # "crashed")
              => IF current_index + 1 >= Len(diary_questions)
                 THEN /\ done'
                      /\ pc' = "END"
                      /\ current_index' = current_index
                      /\ qa_history # << >> => assistant_reply' = Last(qa_history').assistant_reply
                 ELSE LET next_q == format_question_for_gender(
                                        diary_questions[current_index + 2].text,
                                        profile_gender_label)
                      IN  /\ ~ done'
                          /\ pc' = "advance_to_next_question"
                          /\ ends(assistant_reply', Bridge_prefix \o next_q)
                          /\ qa_history # << >> =>
                                 assistant_reply' =
                                     Last(qa_history').assistant_reply \o Bridge_prefix \o next_q]_vars
    /\ [][pc = "advance_to_next_question"
              => (current_index' = current_index + 1 /\ pc' = "select_question" /\ ~ done')]_vars
    /\ [][pc = "END" => (pc' = "END" /\ turn_answer' = turn_answer)]_vars
    /\ [](diary_questions # << >> => current_index < Len(diary_questions))

\* the bridge of the second and last question has ended the session
C27_Witness ==
    /\ pc = "END"
    /\ done
    /\ Len(diary_questions) = 2
    /\ current_index = 1
    /\ Len(qa_history) = 2
    /\ Last(qa_history).question_id = 2
    /\ assistant_reply = Last(qa_history).assistant_reply

\* the follow-up questions of a category of follow_up_questions.json
templates_of(category) ==
    { get(followup_data, category)[i].template : i \in 1..Len(get(followup_data, category)) }

\* C28: when the answer the router classifies is evasive and matches a theme
\* keyword set as well, the router selects the evasive follow-up node, not the
\* deepening node; the branch entered has branch_type "evasive" and asks a
\* template of the evasive category, not one of the theme's category.
C28_EvasiveBeforeTheme ==
    /\ [][(/\ RoutingStep
           /\ question_mode = "MAIN"
           /\ branch_count_for_current = 0
           /\ last_answer # << >>
           /\ is_evasive_answer(last_answer)
           /\ detect_emotional_theme(last_answer) # None)
              => pc' = "follow_up_evasive"]_vars
    /\ [][(/\ pc = "follow_up_evasive"
           /\ detect_emotional_theme(last_answer) # None
           /\ templates_of("evasive") # {})
              => /\ current_branch_type' = "evasive"
                 /\ question_mode' = "FOLLOWUP"
                 /\ pending_question' \in templates_of("evasive")
                 /\ pending_question' \notin templates_of(detect_emotional_theme(last_answer))
                 /\ Last(branches_triggered').type = "evasive"]_vars
    /\ [](pc = "emotional_deepening" => ~ is_evasive_answer(last_answer))

\* "no, ho paura", evasive and with a keyword of fear, has opened the evasive
\* follow-up although the file has a template for fear
C28_Witness ==
    /\ pc = "ask_and_read"
    /\ question_mode = "FOLLOWUP"
    /\ current_branch_type = "evasive"
    /\ is_evasive_answer(last_answer)
    /\ detect_emotional_theme(last_answer) = "Paura"
    /\ templates_of(detect_emotional_theme(last_answer)) # {}
    /\ pending_question \in templates_of("evasive")

\* C29: every entry into a follow-up or deepening branch - every step that
\* increments branch_count - appends exactly one record to the session
\* recorder, holding the branch_type, its display name and the follow-up
\* question, which is the question asked next; no other step changes the
\* records, so there are as many records as increments of branch_count.
C29_BranchLogged ==
    /\ [][IF branch_count_for_current' = branch_count_for_current + 1
          THEN /\ pc \in {"follow_up_evasive", "emotional_deepening"}
               /\ Len(branches_triggered') = Len(branches_triggered) + 1
               /\ SubSeq(branches_triggered', 1, Len(branches_triggered)) = branches_triggered
               /\ Last(branches_triggered').type = current_branch_type'
               /\ Last(branches_triggered').type =
                      IF pc = "follow_up_evasive" THEN "evasive"
                      ELSE detect_emotional_theme(last_answer)
               /\ Last(branches_triggered').theme_display =
                      IF pc = "follow_up_evasive" THEN "Risposta evasiva"
                      ELSE get_theme_display_name(detect_emotional_theme(last_answer))
               /\ Last(branches_triggered').followup_question = pending_question'
               /\ ~ Falsy(pending_question')
               /\ pc' = "ask_and_read"
               /\ question_to_ask' = Last(branches_triggered').followup_question
          ELSE /\ branches_triggered' = branches_triggered
               /\ branch_count_for_current' <= branch_count_for_current]_vars
    /\ [](Len(branches_triggered) >= branch_count_for_current)

\* an answer about panic has opened a deepening that was recorded once, with
\* the question about to be asked
C29_Witness ==
    /\ pc = "ask_and_read"
    /\ question_mode = "DEEPENING"
    /\ branch_count_for_current = 1
    /\ Len(branches_triggered) = 1
    /\ branches_triggered[1].type = "Paura"
    /\ branches_triggered[1].theme_display = "Paura/Ansia"
    /\ branches_triggered[1].followup_question = pending_question
    /\ question_to_ask = Template3

\* C30: at ASK the question presented is pending_question exactly when the
\* mode is FOLLOWUP or DEEPENING, and the current main question, the text of
\* question current_index formatted for the respondent, in MAIN;
\* pending_question is set only by a branch entry and cleared only by the save
\* step, so that it is non-null only from a branch entry to the save of the
\* answer to that follow-up, or to the end when the respondent quits instead.
C30_PendingOnlyInBranch ==
    /\ [](pc = "ask_and_read"
              => /\ (question_to_ask = pending_question)
                        <=> (question_mode \in {"FOLLOWUP", "DEEPENING"})
                 /\ ~ Falsy(pending_question) <=> (question_mode \in {"FOLLOWUP", "DEEPENING"})
                 /\ question_mode = "MAIN"
                        => /\ question_to_ask = current_question
                           /\ current_question =
                                  format_question_for_gender(diary_questions[current_index + 1].text,
                                                             profile_gender_label))
    /\ [](~ Falsy(pending_question)
              => /\ pc \in {"ask_and_read", "save_current_answer", "END"}
                 /\ branches_triggered # << >>
                 /\ pending_question = Last(branches_triggered).followup_question)
    /\ [][pending_question' # pending_question
              => \/ pc \in {"follow_up_evasive", "emotional_deepening"} /\ ~ Falsy(pending_question')
                 \/ pc = "save_current_answer" /\ Falsy(pending_question')]_vars
    /\ [][(pc = "save_current_answer" /\ qa_history' # qa_history)
              => Last(qa_history').question = question_to_ask]_vars

\* the follow-up to an evasive answer is about to be asked instead of the main
\* question
C30_Witness ==
    /\ pc = "ask_and_read"
    /\ question_mode = "FOLLOWUP"
    /\ ~ Falsy(pending_question)
    /\ question_to_ask = pending_question
    /\ question_to_ask # current_question
    /\ Len(qa_history) = 1
(***************************************************************************)
(* C31: current_branch_type is set exactly while branch_count_for_current  *)
(* is positive. The step that increments the count sets it to the tag that *)
(* triggered the branch - "evasive" in follow_up_evasive, the theme        *)
(* detected in the latest answer in emotional_deepening - every later step *)
(* up to the advance keeps it, and only the advance resets it to None.     *)
(***************************************************************************)
C31_BranchTypeWithCount ==
    /\ [](current_branch_type # None <=> branch_count_for_current > 0)
    /\ [][/\ branch_count_for_current' > branch_count_for_current =>
                current_branch_type' =
                    IF pc = "follow_up_evasive" THEN "evasive"
                    ELSE detect_emotional_theme(last_answer)
          /\ current_branch_type' # current_branch_type =>
                \/ branch_count_for_current' > branch_count_for_current
                \/ /\ pc = "advance_to_next_question"
                   /\ current_branch_type' = None]_vars

\* a theme's tag has been kept through the deepening turn and the bridge, up to
\* the advance that is about to reset it
C31_Witness ==
    /\ pc = "advance_to_next_question"
    /\ branch_count_for_current = 1
    /\ current_branch_type = "Paura"
    /\ Len(qa_history) >= 2
    /\ qa_history[Len(qa_history)].assistant_reply # << >>
(***************************************************************************)
(* C32: when the bridge runs for the answer to a follow-up that a negative *)
(* theme opened (fear and anxiety are tagged "Paura", sadness and          *)
(* loneliness "Tristezza") and the answer is short - at most four words,   *)
(* or naming a time of day, or expressing contact or desire - the reply    *)
(* stored is the fixed template for it and the generator is not invoked.   *)
(***************************************************************************)
C32_NegativeFollowUpFixedReply ==
    [][(/\ pc = "empathy_bridge"
        /\ ~ done
        /\ branch_count_for_current > 0
        /\ current_branch_type \in {"Paura", "Tristezza"}
        /\ qa_history # << >>
        /\ branches_triggered # << >>
        /\ qa_history[Len(qa_history)].question =
               branches_triggered[Len(branches_triggered)].followup_question
        /\ negative_followup_reply(last_answer) # NoneText)
       => /\ pc' # "crashed"
          /\ llm_calls' = << >>
          /\ qa_history'[Len(qa_history)].assistant_reply
                 \in {fixed_reply(last_answer), negative_followup_reply(last_answer)}]_vars
(***************************************************************************)
(* C33: when the latest answer is exactly one word, the bridge does not    *)
(* invoke the generator and cannot fail on it; the reply it stores is      *)
(* "Mi fa piacere sentirlo." for a positive word, "Comprendo." for a       *)
(* negative word and "Capisco." for any other word; and the session goes   *)
(* on as after a generated reply: the reply followed by the next question  *)
(* and the advance, or done and the end after the last question.           *)
(***************************************************************************)
C33_OneWordFixedReply ==
    [][(pc = "empathy_bridge" /\ ~ done /\ word_count(last_answer) = 1)
       => LET word  == lower(last_answer)
              reply == Last(qa_history').assistant_reply
          IN  /\ pc' # "crashed"
              /\ llm_calls' = << >>
              /\ reply \in {Reply_piacere, Reply_comprendo, Reply_capisco}
              /\ reply = Reply_piacere <=> InList(word, POSITIVE_WORDS)
              /\ reply = Reply_comprendo <=> InList(word, NEGATIVE_WORDS)
              /\ IF current_index + 1 < Len(diary_questions)
                 THEN /\ pc' = "advance_to_next_question"
                      /\ ~ done'
                      /\ skip_question_print'
                      /\ assistant_reply' =
                             reply \o Bridge_prefix \o
                             format_question_for_gender(
                                 diary_questions[current_index + 2].text,
                                 profile_gender_label)
                 ELSE /\ pc' = "END"
                      /\ done'
                      /\ assistant_reply' = reply]_vars

\* a session in which a negative word, given to the follow-up, and a positive
\* word, given to the last question, have each had their fixed reply
C33_Witness ==
    /\ pc = "END"
    /\ done
    /\ llm_calls = << >>
    /\ Len(qa_history) = 3
    /\ qa_history[2].answer = Line_niente
    /\ qa_history[2].assistant_reply = Reply_comprendo
    /\ qa_history[3].answer = <<"O","k">>
    /\ qa_history[3].assistant_reply = Reply_piacere
    /\ assistant_reply = Reply_piacere
(***************************************************************************)
(* C34: M1 marks the log of a session as completed, against the number of  *)
(* main questions of the session, only if every main question has an       *)
(* answered entry; follow-up and deepening entries do not make up for a    *)
(* main question that was not answered.                                    *)
(***************************************************************************)
C34_CompletedMeansAllAnswered ==
    (pc = "session_save" /\ completed(conversation_log, Len(diary_questions)))
        => \A q \in 1..Len(diary_questions) :
               \E i \in 1..Len(qa_history) :
                   /\ qa_history[i].question_id = q
                   /\ qa_history[i].question =
                          format_question_for_gender(diary_questions[q].text,
                                                     profile_gender_label)
(***************************************************************************)
(* C35: a session on N questions takes at most N x (1 + max_depth) asked   *)
(* turns, whatever is answered and whatever the template file holds. Every *)
(* entry of signals is the classification of one asked turn, so signals    *)
(* never has more entries than that.                                       *)
(***************************************************************************)
C35_TurnsBounded ==
    Len(signals) <= Len(diary_questions) * (1 + max_depth)
(***************************************************************************)
(* C36: done is absorbing. Once done is true no node of the graph runs any *)
(* more - the graph has ended and only the caller's steps follow - and     *)
(* every step keeps done true and leaves qa_history, signals,              *)
(* current_index, branch_count_for_current, the branches reported, the     *)
(* line read last and the generator's calls as they are: no question is    *)
(* asked, no answer saved, no signal appended, no branch entered and no    *)
(* bridge generated, up to the hand-over of the session.                   *)
(***************************************************************************)
C36_DoneAbsorbing ==
    /\ [](done => pc \in {"END", "session_save", "crashed"})
    /\ [][done => /\ done'
                  /\ UNCHANGED << qa_history, signals, current_index,
                                  branch_count_for_current, branches_triggered,
                                  pending_question, turn_answer, llm_calls,
                                  assistant_reply >>]_vars

\* a session ended by the quit signal at the second question, its entries
\* logged by the caller and the state about to be handed over
C36_Witness ==
    /\ pc = "session_save"
    /\ done
    /\ turn_answer = <<"Q">>
    /\ current_index = 1
    /\ qa_history # << >>
    /\ Len(conversation_log) = Len(qa_history)
\* the texts the bridge can take for its reply - the fixed strings of the two
\* fast paths, the two fallbacks, the post-processed outputs of the generator -
\* that pass is_formal_ok, computed once
formal_replies ==
    { r \in {Reply_piacere, Reply_comprendo, Reply_capisco, Reply_difficile,
             Reply_cari, Fallback_short, Fallback_general}
            \cup { post_processed[label][content] :
                      label \in {"MASCHILE", "FEMMINILE", "NON_SPECIFICATO"},
                      content \in LLMReplies } :
        is_formal_ok(r) }

(***************************************************************************)
(* C37: every reply the bridge has stored in an entry of qa_history passes *)
(* the formality predicate, whether it came from the one-word fast path,   *)
(* from the first or the second generation or from the fallback; and the   *)
(* strings of the template path pass it too.                               *)
(***************************************************************************)
C37_StoredRepliesFormal ==
    /\ \A i \in 1..Len(qa_history) :
           qa_history[i].assistant_reply # << >> =>
               qa_history[i].assistant_reply \in formal_replies
    /\ {Reply_difficile, Reply_cari} \subseteq formal_replies

\* both generations came out informal and the fallback has been stored
C37_Witness ==
    /\ llm_calls = << Reply_informal, Reply_informal >>
    /\ qa_history # << >>
    /\ Last(qa_history).assistant_reply \in {Fallback_short, Fallback_general}
    /\ ~ is_formal_ok(post_processed[profile_gender_label][Reply_informal])
(***************************************************************************)
(* C38: on every answer, is_evasive of the metrics gives what              *)
(* is_evasive_answer of the classifier gave for it.                        *)
(***************************************************************************)
C38_MetricsAgreeWithClassifier ==
    "is_evasive" \in DOMAIN test_result =>
        test_result.is_evasive = is_evasive(test_answer)

====
